---- MODULE Spec2Model ----
(***************************************************************************)
(* A model of the ytmusic_mcp package: the match selector                  *)
(* (browser_auth.py), the three playlist-assembly operations               *)
(* (browser_auth.py, playlist.py, youtube_api.py), the credential files    *)
(* written by auth.py / server.py / browser_auth.py, and the OAuth-token   *)
(* tools of server.py.                                                     *)
(*                                                                         *)
(* Python strings are sequences of one-character strings, so that          *)
(* str.lower() and the `in` substring test are computed, not assumed.      *)
(***************************************************************************)
EXTENDS Integers, Sequences, FiniteSets, TLC

(***************************************************************************)
(* Bounds of the model.                                                    *)
(***************************************************************************)
\* longest candidate list handed to the selector in SpecSelect
MaxCands == 3
\* longest query list (or identifier list) of one assemble invocation
MaxQueries == 2
\* longest candidate list one search returns inside an assemble invocation
MaxHits == 2
\* how many times one write site saves its file in SpecStore
MaxSaves == 2
\* the number of pieces a saved document reaches the file in
DocChunks == 2
\* the last instant of the clock in SpecToken
MaxTime == 3
\* the lifetime of a freshly stored access token, in clock ticks
TokenTTL == 2

(***************************************************************************)
(* Python values.                                                          *)
(***************************************************************************)
\* Python's None
None == [py |-> "None"]
\* the value of a variable before the call that sets it has run
NotYet == [py |-> "unset"]

\* all sequences over S of length 0..n
RECURSIVE SeqsUpTo(_, _)
SeqsUpTo(S, n) ==
    IF n = 0 THEN {<<>>}
    ELSE LET shorter == SeqsUpTo(S, n - 1)
         IN  shorter \cup {Append(s, x) : s \in {t \in shorter : Len(t) = n - 1}, x \in S}

\* str.lower() on one character
LowerChar(c) ==
    CASE c = "A" -> "a" [] c = "B" -> "b" [] c = "C" -> "c" [] c = "D" -> "d"
      [] c = "E" -> "e" [] c = "F" -> "f" [] c = "G" -> "g" [] c = "H" -> "h"
      [] c = "I" -> "i" [] c = "J" -> "j" [] c = "K" -> "k" [] c = "L" -> "l"
      [] c = "M" -> "m" [] c = "N" -> "n" [] c = "O" -> "o" [] c = "P" -> "p"
      [] c = "Q" -> "q" [] c = "R" -> "r" [] c = "S" -> "s" [] c = "T" -> "t"
      [] c = "U" -> "u" [] c = "V" -> "v" [] c = "W" -> "w" [] c = "X" -> "x"
      [] c = "Y" -> "y" [] c = "Z" -> "z" [] OTHER -> c

\* str.lower()
Lower(s) == [i \in 1..Len(s) |-> LowerChar(s[i])]

\* Python's `needle in hay` on strings (true for the empty needle)
Contains(needle, hay) ==
    \E i \in 0..(Len(hay) - Len(needle)) :
        SubSeq(hay, i + 1, i + Len(needle)) = needle

\* sep.join(parts)
RECURSIVE Join(_, _)
Join(sep, parts) ==
    IF parts = <<>> THEN <<>>
    ELSE IF Len(parts) = 1 THEN parts[1]
    ELSE parts[1] \o sep \o Join(sep, Tail(parts))

(***************************************************************************)
(* String literals used by the code.                                       *)
(***************************************************************************)
W_remix    == <<"r","e","m","i","x">>
W_rmx      == <<"r","m","x">>
W_rework   == <<"r","e","w","o","r","k">>
W_edit     == <<"e","d","i","t">>
W_bootleg  == <<"b","o","o","t","l","e","g">>
W_live     == <<"l","i","v","e">>
W_cover    == <<"c","o","v","e","r">>
W_topic    == <<"t","o","p","i","c">>
W_explicit == <<"e","x","p","l","i","c","i","t">>
CommaSpace == <<",", " ">>

\* browser_auth.py:222, the selector's remix word list
SelectorRemixWords == {W_remix, W_rmx, W_rework, W_edit}

\* youtube_api.py:67-68, the word list behind search_tracks' isRemix
ApiRemixWords == {W_remix, W_rmx, W_rework, W_bootleg, W_edit}

(***************************************************************************)
(* Inputs: titles, artist names, queries and search results.               *)
(***************************************************************************)
T_TestSongArtistRemix ==
    <<"T","e","s","t"," ","S","o","n","g"," ","(","A","r","t","i","s","t"," ","R","e","m","i","x",")">>
T_TestSong  == <<"T","e","s","t"," ","S","o","n","g">>
T_LiveCover == <<"S","o","n","g"," ","(","L","i","v","e"," ","C","o","v","e","r",")">>
T_Other     == <<"O","t","h","e","r">>
T_BootlegSuffix == <<" ","(","B","o","o","t","l","e","g",")">>
T_OtherBootleg  == T_Other \o T_BootlegSuffix
T_A         == <<"A">>
T_B         == <<"B">>

N_Artist == <<"A","r","t","i","s","t">>
N_Topic  == <<"A","r","t","i","s","t"," ","-"," ","T","o","p","i","c">>
N_Band   == <<"B","a","n","d">>

Q_TestSongArtistRemix == T_TestSongArtistRemix
Q_testsong            == <<"t","e","s","t"," ","s","o","n","g">>
Q_OtherExplicit       == <<"O","t","h","e","r"," ","E","x","p","l","i","c","i","t">>

\* one search result of ytmusicapi: the keys the code reads
Cand(vid, title, artists, explicit, album) ==
    [videoId |-> vid, title |-> title,
     artists |-> [i \in 1..Len(artists) |-> [name |-> artists[i]]],
     isExplicit |-> explicit, album |-> album, duration |-> "3:30"]

\* the "album" value of a search result: a dict with a name, or None
AlbumDict == [name |-> <<"L","P">>]

\* the candidates SpecSelect draws from
SelPool ==
    { Cand("v1", T_TestSongArtistRemix, <<N_Artist>>, FALSE, AlbumDict),
      Cand("v2", T_TestSong, <<N_Artist>>, FALSE, AlbumDict),
      Cand("v3", T_TestSong, <<N_Artist, N_Topic>>, TRUE, AlbumDict),
      Cand("v4", T_LiveCover, <<N_Band>>, FALSE, AlbumDict),
      Cand("v5", T_Other, <<>>, TRUE, None),
      Cand("v6", T_Other, <<N_Artist>>, FALSE, AlbumDict),
      Cand("v7", T_TestSong, <<N_Artist>>, FALSE, AlbumDict),
      Cand("v8", T_OtherBootleg, <<N_Artist>>, FALSE, AlbumDict) }

SelQueries == {Q_TestSongArtistRemix, Q_testsong, Q_OtherExplicit}

(***************************************************************************)
(* BrowserPlaylistManager._select_best_match                                *)
(***************************************************************************)
\* a score whose title test is reversed: `title_lower in query_lower`
ScoreTitleInQuery(result, query) ==
    LET query_lower == Lower(query)
        title_lower == Lower(result.title)
        artists     == result.artists
    IN  (IF Contains(title_lower, query_lower) THEN 10 ELSE 0)
      + (IF \E w \in SelectorRemixWords : Contains(w, title_lower) THEN -5 ELSE 0)
      + (IF Contains(W_live, title_lower) THEN -3 ELSE 0)
      + (IF Contains(W_cover, title_lower) THEN -4 ELSE 0)
      + (IF artists # <<>> /\ \E i \in 1..Len(artists) :
                                  Contains(W_topic, Lower(artists[i].name))
         THEN 2 ELSE 0)
      + (IF Contains(W_explicit, query_lower) /\ result.isExplicit THEN 1 ELSE 0)

\* the score of one result against the query (body of the for loop)
Score(result, query) ==
    LET query_lower == Lower(query)
        title_lower == Lower(result.title)
        artists     == result.artists
    IN  (IF Contains(query_lower, title_lower) THEN 10 ELSE 0)
      + (IF \E w \in SelectorRemixWords : Contains(w, title_lower) THEN -5 ELSE 0)
      + (IF Contains(W_live, title_lower) THEN -3 ELSE 0)
      + (IF Contains(W_cover, title_lower) THEN -4 ELSE 0)
      + (IF artists # <<>> /\ \E i \in 1..Len(artists) :
                                  Contains(W_topic, Lower(artists[i].name))
         THEN 2 ELSE 0)
      + (IF Contains(W_explicit, query_lower) /\ result.isExplicit THEN 1 ELSE 0)

\* scored_results after the loop: (score, result) pairs in input order
ScoredResults(search_results, query) ==
    [i \in 1..Len(search_results) |->
        <<Score(search_results[i], query), search_results[i]>>]

\* a sort that puts a pair before the earlier pairs of equal score
RECURSIVE SortLastTieFirst(_)
SortLastTieFirst(scored) ==
    IF scored = <<>> THEN <<>>
    ELSE LET n    == Len(scored)
             x    == scored[n]
             rest == SortLastTieFirst(SubSeq(scored, 1, n - 1))
             k    == Cardinality({j \in 1..Len(rest) : rest[j][1] > x[1]})
         IN  SubSeq(rest, 1, k) \o <<x>> \o SubSeq(rest, k + 1, Len(rest))

\* list.sort(key=lambda x: x[0], reverse=True): descending by score and
\* stable (pairs of equal score keep their input order)
RECURSIVE SortByScoreDesc(_)
SortByScoreDesc(scored) ==
    IF scored = <<>> THEN <<>>
    ELSE LET n    == Len(scored)
             x    == scored[n]
             rest == SortByScoreDesc(SubSeq(scored, 1, n - 1))
             k    == Cardinality({j \in 1..Len(rest) : rest[j][1] >= x[1]})
         IN  SubSeq(rest, 1, k) \o <<x>> \o SubSeq(rest, k + 1, Len(rest))

\* a selector that drops a best result of negative score
SelectDropNegative(search_results, query) ==
    IF search_results = <<>> THEN None
    ELSE LET sorted == SortByScoreDesc(ScoredResults(search_results, query))
         IN  IF sorted[1][1] < 0 THEN None ELSE sorted[1][2]

SelectBestMatch(search_results, query) ==
    IF search_results = <<>> THEN None
    ELSE LET sorted == SortByScoreDesc(ScoredResults(search_results, query))
         IN  IF sorted # <<>> THEN sorted[1][2] ELSE None

(***************************************************************************)
(* Inputs of the assemble operations.                                      *)
(***************************************************************************)
T_ALive == <<"A"," ","(","L","i","v","e",")">>

\* the query strings an assemble invocation draws from
AsmQueries == {T_A, T_B}

\* the results a search inside an assemble invocation draws from; the last
\* one carries "album": None
HitPool ==
    { Cand("a1", T_A, <<N_Artist>>, FALSE, AlbumDict),
      Cand("a2", T_ALive, <<N_Artist, N_Band>>, FALSE, AlbumDict),
      Cand("b1", T_B, <<N_Band>>, FALSE, None) }

\* what one remote search does: raise, or return a (possibly empty) list
SearchOutcomes ==
    {[kind |-> "raise"]} \cup {[kind |-> "ok", hits |-> h] : h \in SeqsUpTo(HitPool, MaxHits)}

\* the identifiers ytm_create_playlist_from_ids draws from
IdPool == {"a1", "b1"}

\* what the remote create call hands back: a playlist id, a dict with an
\* "error" key, a dict without one, or an exception
ErrorDict == [type |-> "dict", error |-> "remote error"]
OtherDict == [type |-> "dict", status |-> "unexpected"]
PlaylistId == [type |-> "str", value |-> "PL1"]

\* what the remote add_playlist_items call can do: add every identifier, or
\* raise and add none; it cannot add to something that is no playlist id
AddOutcomes(playlist_id) ==
    IF playlist_id = PlaylistId THEN {"ok", "raise"} ELSE {"raise"}

\* isinstance(v, dict)
IsDict(v) == v.type = "dict"

(***************************************************************************)
(* BrowserPlaylistManager.search_and_create_playlist                       *)
(***************************************************************************)
\* a creation check that is never true
BrowserCreateFailedNever(playlist_id) == FALSE

\* browser_auth.py:133  isinstance(playlist_id, dict) and "error" in playlist_id
BrowserCreateFailed(playlist_id) ==
    /\ IsDict(playlist_id)
    /\ "error" \in DOMAIN playlist_id

\* the details entry of a matched query
FoundEntry(query, best_match) ==
    [query |-> query, found |-> TRUE, title |-> best_match.title,
     artists |-> Join(CommaSpace, [i \in 1..Len(best_match.artists) |->
                                      best_match.artists[i].name]),
     album |-> best_match.album.name, duration |-> best_match.duration,
     videoId |-> best_match.videoId]

\* a loop body that drops the query when its search raises
BrowserLoopBodyDropOnRaise(query, outcome, results, video_ids) ==
    IF outcome.kind = "raise"
    THEN [results |-> results, video_ids |-> video_ids]
    ELSE IF outcome.hits = <<>>
    THEN [results |-> Append(results, [query |-> query, found |-> FALSE,
                                       reason |-> "No search results"]),
          video_ids |-> video_ids]
    ELSE LET best_match == SelectBestMatch(outcome.hits, query)
         IN  IF best_match = None
             THEN [results |-> Append(results, [query |-> query, found |-> FALSE,
                                                reason |-> "No suitable match found"]),
                   video_ids |-> video_ids]
             ELSE IF best_match.album = None
             THEN [results |-> Append(results, [query |-> query, found |-> FALSE,
                                                error |-> "AttributeError"]),
                   video_ids |-> Append(video_ids, best_match.videoId)]
             ELSE [results |-> Append(results, FoundEntry(query, best_match)),
                   video_ids |-> Append(video_ids, best_match.videoId)]

\* a loop body that files a raised search under "reason"
BrowserLoopBodyRaiseAsReason(query, outcome, results, video_ids) ==
    IF outcome.kind = "raise"
    THEN [results |-> Append(results, [query |-> query, found |-> FALSE,
                                       reason |-> "search failed"]),
          video_ids |-> video_ids]
    ELSE BrowserLoopBodyDropOnRaise(query, outcome, results, video_ids)

\* a loop body that files an empty search under "No suitable match found"
BrowserLoopBodyEmptyAsNoMatch(query, outcome, results, video_ids) ==
    IF outcome.kind = "raise"
    THEN [results |-> Append(results, [query |-> query, found |-> FALSE,
                                       error |-> "search failed"]),
          video_ids |-> video_ids]
    ELSE IF outcome.hits = <<>>
    THEN [results |-> Append(results, [query |-> query, found |-> FALSE,
                                       reason |-> "No suitable match found"]),
          video_ids |-> video_ids]
    ELSE BrowserLoopBodyDropOnRaise(query, outcome, results, video_ids)

\* a loop body that puts a matched id in front of the earlier ones
BrowserLoopBodyPrepend(query, outcome, results, video_ids) ==
    IF outcome.kind = "raise"
    THEN [results |-> Append(results, [query |-> query, found |-> FALSE,
                                       error |-> "search failed"]),
          video_ids |-> video_ids]
    ELSE IF outcome.hits = <<>>
    THEN [results |-> Append(results, [query |-> query, found |-> FALSE,
                                       reason |-> "No search results"]),
          video_ids |-> video_ids]
    ELSE LET best_match == SelectBestMatch(outcome.hits, query)
         IN  IF best_match = None
             THEN [results |-> Append(results, [query |-> query, found |-> FALSE,
                                                reason |-> "No suitable match found"]),
                   video_ids |-> video_ids]
             ELSE IF best_match.album = None
             THEN [results |-> Append(results, [query |-> query, found |-> FALSE,
                                                error |-> "AttributeError"]),
                   video_ids |-> <<best_match.videoId>> \o video_ids]
             ELSE [results |-> Append(results, FoundEntry(query, best_match)),
                   video_ids |-> <<best_match.videoId>> \o video_ids]

\* one iteration of the for loop, browser_auth.py:140-177: the new results
\* and video_ids. An exception inside the try (the search raising, or
\* best_match.get("album", {}).get("name") on an album that is None, which
\* happens after video_ids.append) lands in the except branch.
BrowserLoopBody(query, outcome, results, video_ids) ==
    IF outcome.kind = "raise"
    THEN [results |-> Append(results, [query |-> query, found |-> FALSE,
                                       error |-> "search failed"]),
          video_ids |-> video_ids]
    ELSE IF outcome.hits = <<>>
    THEN [results |-> Append(results, [query |-> query, found |-> FALSE,
                                       reason |-> "No search results"]),
          video_ids |-> video_ids]
    ELSE LET best_match == SelectBestMatch(outcome.hits, query)
         IN  IF best_match = None
             THEN [results |-> Append(results, [query |-> query, found |-> FALSE,
                                                reason |-> "No suitable match found"]),
                   video_ids |-> video_ids]
             ELSE IF best_match.album = None
             THEN [results |-> Append(results, [query |-> query, found |-> FALSE,
                                                error |-> "AttributeError"]),
                   video_ids |-> Append(video_ids, best_match.videoId)]
             ELSE [results |-> Append(results, FoundEntry(query, best_match)),
                   video_ids |-> Append(video_ids, best_match.videoId)]

\* the dict returned at browser_auth.py:187-194 (the two URLs are the id
\* behind a fixed prefix and are left out)
BrowserResultTotalIsAdded(playlist_id, queries, results, video_ids) ==
    [playlist_id |-> playlist_id, tracks_added |-> Len(video_ids),
     tracks_total |-> Len(video_ids), details |-> results]

BrowserResult(playlist_id, queries, results, video_ids) ==
    [playlist_id |-> playlist_id, tracks_added |-> Len(video_ids),
     tracks_total |-> Len(queries), details |-> results]

(***************************************************************************)
(* PlaylistManager.create_playlist_batch                                   *)
(***************************************************************************)
\* playlist.py:15  isinstance(playlist_id, dict)
BatchCreateFailed(playlist_id) == IsDict(playlist_id)

\* one iteration of the for loop, playlist.py:22-38, for a search that
\* returned (a search that raises leaves the loop and the method)
BatchLoopBody(query, hits, results, video_ids) ==
    IF hits # <<>>
    THEN LET best_match == hits[1]
         IN  [results |-> Append(results,
                  [query |-> query, found |-> TRUE, title |-> best_match.title,
                   artist |-> Join(CommaSpace, [i \in 1..Len(best_match.artists) |->
                                                   best_match.artists[i].name]),
                   videoId |-> best_match.videoId]),
              video_ids |-> Append(video_ids, best_match.videoId)]
    ELSE [results |-> Append(results, [query |-> query, found |-> FALSE]),
          video_ids |-> video_ids]

\* the dict returned at playlist.py:44-49
BatchResult(playlist_id, results, video_ids) ==
    [playlist_id |-> playlist_id, track_count |-> Len(video_ids), details |-> results]

(***************************************************************************)
(* PlaylistBuilder.create_playlist_from_ids                                *)
(***************************************************************************)
\* sum(add_results): the number of True entries
RECURSIVE SumBools(_)
SumBools(bs) ==
    IF bs = <<>> THEN 0 ELSE (IF Head(bs) THEN 1 ELSE 0) + SumBools(Tail(bs))

\* a result that counts every add request as accepted
FromIdsResultCountsAll(playlist_id, video_ids, add_results) ==
    [playlist_id |-> playlist_id, videos_added |-> Len(add_results),
     videos_total |-> Len(video_ids), add_results |-> add_results]

\* the dict returned at youtube_api.py:207-214
FromIdsResult(playlist_id, video_ids, add_results) ==
    [playlist_id |-> playlist_id, videos_added |-> SumBools(add_results),
     videos_total |-> Len(video_ids), add_results |-> add_results]

\* what a tool of server.py returns when the call under its try raises
ToolError(msg) == [error |-> msg]

(***************************************************************************)
(* The credential files and the places that write them.                    *)
(***************************************************************************)
Paths == {"oauth.json", "oauth_creds.json", "browser.json"}

\* the open(path, "w") sites of the package
WriteSites == {"curl_setup", "setup_from_headers", "migrate_creds", "migrate_oauth"}

\* the file each site writes
SitePath(w) ==
    CASE w = "curl_setup"         -> "browser.json"       \* server.py:228
      [] w = "setup_from_headers" -> "browser.json"       \* browser_auth.py:66
      [] w = "migrate_creds"      -> "oauth_creds.json"   \* auth.py:44
      [] w = "migrate_oauth"      -> "oauth.json"         \* auth.py:49

\* the complete content of the v-th document a site saves
Doc(w, v) == [i \in 1..DocChunks |-> <<w, v, i>>]

\* a token file of the legacy layout, with 'oauth_credentials' embedded
LegacyDoc == Doc("legacy", 0)

\* whether a write site may start, beyond the file being free:
\* get_ytmusic migrates only when oauth.json exists, oauth_creds.json does
\* not and the token file read at auth.py:38-41 embeds the credentials; it
\* rewrites oauth.json after it has written oauth_creds.json
SiteEnabled(w, files, sv) ==
    CASE w = "migrate_creds" ->
            /\ files["oauth.json"].exists
            /\ ~files["oauth_creds.json"].exists
            /\ files["oauth.json"].data = LegacyDoc
      [] w = "migrate_oauth" ->
            /\ ~sv["migrate_creds"].active
            /\ sv["migrate_creds"].version > sv["migrate_oauth"].version
      [] OTHER -> TRUE

\* open(path, "w") on the file: created if missing, truncated to nothing
OpenForWrite(file) == [exists |-> TRUE, data |-> <<>>]

(***************************************************************************)
(* YouTubeAPI requests under a bearer token (youtube_api.py:12-15).        *)
(***************************************************************************)
TokQueries == {"A", "B"}

\* a request as the remote service sees it: the token's expiry travels
\* with the token, `at` is the time of the request
Request(kind, arg, tok, t) ==
    [kind |-> kind, arg |-> arg, expires_at |-> tok.expires_at, at |-> t]

\* the remote service answers a request under an expired token with 401
StatusOf(req, wished) == IF req.at >= req.expires_at THEN 401 ELSE wished

(***************************************************************************)
(* State.                                                                  *)
(***************************************************************************)
VARIABLES
    \* one call of _select_best_match: its arguments and its return value
    selQuery, selCands, selOut,
    \* one assemble invocation: which operation, its argument list (queries,
    \* or video ids for create_playlist_from_ids) and where it stands
    op, queries, pc,
    \* its locals
    playlist_id, results, video_ids, add_results,
    \* what the tool returned to the caller
    ret,
    \* the remote service: what the create call did, what each search did,
    \* each add request with its outcome, and the playlist's confirmed items
    createOutcome, searchLog, addLog, remoteItems,
    \* the credential files: per path whether it exists and the pieces it
    \* holds; per write site the save in progress; per path the last
    \* completely written content; and what the last load read
    fs, saving, committed, lastRead,
    \* the OAuth tools of server.py: the clock, the token in oauth.json, the
    \* requests the last tool call sent to the remote service, and what the
    \* tool returned
    now, oauth, tokRequests, tokRet,
    \* AuthManager (auth.py): _pending_credentials, the content of
    \* oauth_creds.json, the last tool call (its name, its argument and
    \* the state it found), and the clients start_oauth was last called for
    pending, credsFile, lastCall, started,
    \* BrowserAuthManager (browser_auth.py): the content of browser.json, the
    \* cached _ytmusic session, the credentials the remote service no longer
    \* accepts, whether a remote call answered an authorization failure
    \* since the last setup, what the last get_ytmusic() returned, and the
    \* cURL command handed to ytm_setup_browser_auth_from_curl
    bfile, ytCache, rejected, authFailed, lastGot, curl_command,
    \* one call of a search function of youtube_api.py or of
    \* search_tracks_detailed: the function, its arguments and what the
    \* remote service answered; and what the function returned or raised
    apiCall, apiRet,
    \* one complete_oauth call taken line by line: where it stands (with
    \* its arguments and the token it was handed), and what a concurrent
    \* is_authenticated() / get_ytmusic() last found
    completing, observed

selVars == <<selQuery, selCands, selOut>>
asmVars == <<op, queries, pc, playlist_id, results, video_ids, add_results, ret,
             createOutcome, searchLog, addLog, remoteItems>>
fileVars == <<fs, saving, committed, lastRead>>
tokVars == <<now, oauth, tokRequests, tokRet>>
authVars == <<pending, credsFile, lastCall, started>>
brVars == <<bfile, ytCache, rejected, authFailed, lastGot, curl_command>>
apiVars == <<apiCall, apiRet>>
coVars == <<completing, observed>>
vars == <<selVars, asmVars, fileVars, tokVars, authVars, brVars, apiVars, coVars>>

(***************************************************************************)
(* SpecSelect: every call of the selector on a bounded input.              *)
(***************************************************************************)
SelIdle ==
    /\ selQuery = <<>>
    /\ selCands = <<>>
    /\ selOut = NotYet

ApiIdle ==
    /\ apiCall = NotYet
    /\ apiRet = NotYet

CoIdle ==
    /\ completing = None
    /\ observed = NotYet

AsmIdle ==
    /\ op = "none"
    /\ queries = <<>>
    /\ pc = "idle"
    /\ playlist_id = NotYet
    /\ results = <<>>
    /\ video_ids = <<>>
    /\ add_results = <<>>
    /\ ret = NotYet
    /\ createOutcome = "none"
    /\ searchLog = <<>>
    /\ addLog = <<>>
    /\ remoteItems = <<>>

FileIdle ==
    /\ fs = [p \in Paths |-> [exists |-> FALSE, data |-> <<>>]]
    /\ saving = [w \in WriteSites |-> [active |-> FALSE, version |-> 0, written |-> 0]]
    /\ committed = [p \in Paths |-> <<>>]
    /\ lastRead = NotYet

TokIdle ==
    /\ now = 0
    /\ oauth = [exists |-> FALSE]
    /\ tokRequests = <<>>
    /\ tokRet = NotYet

AuthIdle ==
    /\ pending = None
    /\ credsFile = [exists |-> FALSE]
    /\ lastCall = NotYet
    /\ started = <<>>

BrIdle ==
    /\ bfile = [exists |-> FALSE]
    /\ ytCache = None
    /\ rejected = {}
    /\ authFailed = FALSE
    /\ lastGot = NotYet
    /\ curl_command = <<>>

SelInit ==
    /\ selQuery \in SelQueries
    /\ selCands \in SeqsUpTo(SelPool, MaxCands)
    /\ selOut = NotYet
    /\ ApiIdle
    /\ CoIdle
    /\ AsmIdle
    /\ FileIdle
    /\ TokIdle
    /\ AuthIdle
    /\ BrIdle

CallSelect ==
    /\ selOut = NotYet
    /\ selOut' = SelectBestMatch(selCands, selQuery)
    /\ UNCHANGED <<selQuery, selCands, asmVars, fileVars, tokVars, authVars, brVars,
                   apiVars, coVars>>

SelNext == CallSelect

SpecSelect == SelInit /\ [][SelNext]_vars

(***************************************************************************)
(* Spec: one invocation of an assemble tool                                *)
(*   ytm_create_playlist_browser  -> search_and_create_playlist ("browser")*)
(*   ytm_create_playlist_ytmusic  -> create_playlist_batch      ("batch")  *)
(*   ytm_create_playlist_from_ids -> create_playlist_from_ids   ("from_ids")*)
(* with the session already obtained.                                      *)
(***************************************************************************)
Init ==
    /\ SelIdle
    /\ ApiIdle
    /\ CoIdle
    /\ FileIdle
    /\ TokIdle
    /\ AuthIdle
    /\ BrIdle
    /\ op \in {"browser", "batch", "from_ids"}
    /\ queries \in (IF op = "from_ids" THEN SeqsUpTo(IdPool, MaxQueries)
                    ELSE SeqsUpTo(AsmQueries, MaxQueries))
    /\ pc = "create"
    /\ playlist_id = NotYet
    /\ results = <<>>
    /\ video_ids = <<>>
    /\ add_results = <<>>
    /\ ret = NotYet
    /\ createOutcome = "none"
    /\ searchLog = <<>>
    /\ addLog = <<>>
    /\ remoteItems = <<>>

\* what one search contributes to the add call: the selector's pick in
\* search_and_create_playlist (browser_auth.py:143-150), the first hit in
\* create_playlist_batch (playlist.py:23-26), nothing when the search
\* raised, returned no hit or no hit was picked
MatchedId(query, outcome) ==
    IF outcome.kind # "ok" \/ outcome.hits = <<>> THEN None
    ELSE IF op = "browser"
    THEN LET best_match == SelectBestMatch(outcome.hits, query)
         IN  IF best_match = None THEN None ELSE [id |-> best_match.videoId]
    ELSE [id |-> outcome.hits[1].videoId]

\* browser_auth.py:128-138
BrowserCreate ==
    /\ op = "browser" /\ pc = "create"
    /\ \E o \in {"id", "errdict", "otherdict", "raise"} :
        /\ createOutcome' = o
        /\ IF o = "raise"
           THEN /\ ret' = ToolError("create failed")
                /\ pc' = "done"
                /\ UNCHANGED playlist_id
           ELSE LET pid == CASE o = "id" -> PlaylistId
                             [] o = "errdict" -> ErrorDict
                             [] OTHER -> OtherDict
                IN  /\ playlist_id' = pid
                    /\ IF BrowserCreateFailed(pid)
                       THEN ret' = pid /\ pc' = "done"
                       ELSE ret' = ret /\ pc' = "search"
    /\ UNCHANGED <<op, queries, results, video_ids, add_results,
                   searchLog, addLog, remoteItems, selVars, apiVars, coVars, authVars, brVars, fileVars, tokVars>>

\* browser_auth.py:140-177, one query
BrowserSearch ==
    /\ op = "browser" /\ pc = "search"
    /\ Len(searchLog) < Len(queries)
    /\ \E o \in SearchOutcomes :
        LET query == queries[Len(searchLog) + 1]
            new   == BrowserLoopBody(query, o, results, video_ids)
        IN  /\ searchLog' = Append(searchLog,
                    [query |-> query, kind |-> o.kind,
                     n |-> IF o.kind = "ok" THEN Len(o.hits) ELSE 0,
                     matched |-> MatchedId(query, o)])
            /\ results' = new.results
            /\ video_ids' = new.video_ids
    /\ UNCHANGED <<op, queries, pc, playlist_id, add_results, ret,
                   createOutcome, addLog, remoteItems, selVars, apiVars, coVars, authVars, brVars, fileVars, tokVars>>

\* browser_auth.py:179-194
BrowserAddAndReturn ==
    /\ op = "browser" /\ pc = "search"
    /\ Len(searchLog) = Len(queries)
    /\ IF video_ids # <<>>
       THEN \E o \in AddOutcomes(playlist_id) :
              /\ addLog' = Append(addLog, [ids |-> video_ids, outcome |-> o])
              /\ remoteItems' = IF o = "ok" THEN remoteItems \o video_ids
                                ELSE remoteItems
       ELSE UNCHANGED <<addLog, remoteItems>>
    /\ ret' = BrowserResult(playlist_id, queries, results, video_ids)
    /\ pc' = "done"
    /\ UNCHANGED <<op, queries, playlist_id, results, video_ids, add_results,
                   createOutcome, searchLog, selVars, apiVars, coVars, authVars, brVars, fileVars, tokVars>>

\* playlist.py:13-20 under server.py:121-128
BatchCreate ==
    /\ op = "batch" /\ pc = "create"
    /\ \E o \in {"id", "errdict", "otherdict", "raise"} :
        /\ createOutcome' = o
        /\ IF o = "raise"
           THEN /\ ret' = ToolError("create failed")
                /\ pc' = "done"
                /\ UNCHANGED playlist_id
           ELSE LET pid == CASE o = "id" -> PlaylistId
                             [] o = "errdict" -> ErrorDict
                             [] OTHER -> OtherDict
                IN  /\ playlist_id' = pid
                    /\ IF BatchCreateFailed(pid)
                       THEN ret' = ToolError("Failed to create playlist") /\ pc' = "done"
                       ELSE ret' = ret /\ pc' = "search"
    /\ UNCHANGED <<op, queries, results, video_ids, add_results,
                   searchLog, addLog, remoteItems, selVars, apiVars, coVars, authVars, brVars, fileVars, tokVars>>

\* playlist.py:22-38, one query; a search that raises leaves the method and
\* is caught at server.py:126
BatchSearch ==
    /\ op = "batch" /\ pc = "search"
    /\ Len(searchLog) < Len(queries)
    /\ \E o \in SearchOutcomes :
        LET query == queries[Len(searchLog) + 1]
        IN  /\ searchLog' = Append(searchLog,
                    [query |-> query, kind |-> o.kind,
                     n |-> IF o.kind = "ok" THEN Len(o.hits) ELSE 0,
                     matched |-> MatchedId(query, o)])
            /\ IF o.kind = "raise"
               THEN /\ ret' = ToolError("search failed")
                    /\ pc' = "done"
                    /\ UNCHANGED <<results, video_ids>>
               ELSE LET new == BatchLoopBody(query, o.hits, results, video_ids)
                    IN  /\ results' = new.results
                        /\ video_ids' = new.video_ids
                        /\ UNCHANGED <<ret, pc>>
    /\ UNCHANGED <<op, queries, playlist_id, add_results,
                   createOutcome, addLog, remoteItems, selVars, apiVars, coVars, authVars, brVars, fileVars, tokVars>>

\* playlist.py:40-49
BatchAddAndReturn ==
    /\ op = "batch" /\ pc = "search"
    /\ Len(searchLog) = Len(queries)
    /\ IF video_ids # <<>>
       THEN \E o \in {"ok", "raise"} :
              /\ addLog' = Append(addLog, [ids |-> video_ids, outcome |-> o])
              /\ remoteItems' = IF o = "ok" THEN remoteItems \o video_ids
                                ELSE remoteItems
              /\ ret' = IF o = "ok" THEN BatchResult(playlist_id, results, video_ids)
                        ELSE ToolError("add failed")
       ELSE /\ UNCHANGED <<addLog, remoteItems>>
            /\ ret' = BatchResult(playlist_id, results, video_ids)
    /\ pc' = "done"
    /\ UNCHANGED <<op, queries, playlist_id, results, video_ids, add_results,
                   createOutcome, searchLog, selVars, apiVars, coVars, authVars, brVars, fileVars, tokVars>>

\* youtube_api.py:201-202 with create_playlist (118-140): an id, or an
\* exception on a status other than 200
FromIdsCreate ==
    /\ op = "from_ids" /\ pc = "create"
    /\ \E o \in {"id", "raise"} :
        /\ createOutcome' = o
        /\ IF o = "raise"
           THEN /\ ret' = ToolError("Failed to create playlist")
                /\ pc' = "done"
                /\ UNCHANGED playlist_id
           ELSE /\ playlist_id' = PlaylistId
                /\ pc' = "add"
                /\ UNCHANGED ret
    /\ UNCHANGED <<op, queries, results, video_ids, add_results,
                   searchLog, addLog, remoteItems, selVars, apiVars, coVars, authVars, brVars, fileVars, tokVars>>

\* youtube_api.py:149-161, one identifier: the POST answers 200, answers
\* another status, or raises (and the exception is caught at server.py:103)
FromIdsAddOne ==
    /\ op = "from_ids" /\ pc = "add"
    /\ Len(addLog) < Len(queries)
    /\ \E o \in {"ok", "rejected", "raise"} :
        LET video_id == queries[Len(addLog) + 1]
        IN  /\ addLog' = Append(addLog, [ids |-> <<video_id>>, outcome |-> o])
            /\ remoteItems' = IF o = "ok" THEN Append(remoteItems, video_id)
                              ELSE remoteItems
            /\ IF o = "raise"
               THEN /\ ret' = ToolError("connection error")
                    /\ pc' = "done"
                    /\ UNCHANGED add_results
               ELSE /\ add_results' = Append(add_results, o = "ok")
                    /\ UNCHANGED <<ret, pc>>
    /\ UNCHANGED <<op, queries, playlist_id, results, video_ids,
                   createOutcome, searchLog, selVars, apiVars, coVars, authVars, brVars, fileVars, tokVars>>

\* youtube_api.py:163 and 207-214
FromIdsReturn ==
    /\ op = "from_ids" /\ pc = "add"
    /\ Len(addLog) = Len(queries)
    /\ ret' = FromIdsResult(playlist_id, queries, add_results)
    /\ pc' = "done"
    /\ UNCHANGED <<op, queries, playlist_id, results, video_ids, add_results,
                   createOutcome, searchLog, addLog, remoteItems, selVars, apiVars, coVars, authVars, brVars, fileVars, tokVars>>

Next ==
    \/ BrowserCreate
    \/ BrowserSearch
    \/ BrowserAddAndReturn
    \/ BatchCreate
    \/ BatchSearch
    \/ BatchAddAndReturn
    \/ FromIdsCreate
    \/ FromIdsAddOne
    \/ FromIdsReturn

Spec == Init /\ [][Next]_vars

(***************************************************************************)
(* SpecStore: saves of the credential files interleaved with loads.        *)
(* Every site writes with open(path, "w") followed by write/json.dump and  *)
(* the close at the end of the with block; no site writes to a temporary   *)
(* file and renames it.                                                    *)
(***************************************************************************)
StoreInit ==
    /\ SelIdle
    /\ ApiIdle
    /\ CoIdle
    /\ AsmIdle
    /\ TokIdle
    /\ AuthIdle
    /\ BrIdle
    /\ fs = [p \in Paths |-> IF p = "oauth.json"
                              THEN [exists |-> TRUE, data |-> LegacyDoc]
                              ELSE [exists |-> FALSE, data |-> <<>>]]
    /\ saving = [w \in WriteSites |-> [active |-> FALSE, version |-> 0, written |-> 0]]
    /\ committed = [p \in Paths |-> IF p = "oauth.json" THEN LegacyDoc ELSE <<>>]
    /\ lastRead = NotYet

\* `with open(path, "w") as f:` at a write site
SaveOpen(w) ==
    /\ ~saving[w].active
    /\ saving[w].version < MaxSaves
    /\ \A u \in WriteSites : SitePath(u) = SitePath(w) => ~saving[u].active
    /\ SiteEnabled(w, fs, saving)
    /\ fs' = [fs EXCEPT ![SitePath(w)] = OpenForWrite(@)]
    /\ saving' = [saving EXCEPT ![w] =
                     [active |-> TRUE, version |-> @.version + 1, written |-> 0]]
    /\ UNCHANGED <<committed, lastRead, selVars, apiVars, coVars, authVars, brVars, asmVars, tokVars>>

\* one piece of f.write / json.dump reaching the file
SaveWrite(w) ==
    /\ saving[w].active
    /\ saving[w].written < DocChunks
    /\ fs' = [fs EXCEPT ![SitePath(w)].data =
                 Append(@, Doc(w, saving[w].version)[saving[w].written + 1])]
    /\ saving' = [saving EXCEPT ![w].written = @ + 1]
    /\ UNCHANGED <<committed, lastRead, selVars, apiVars, coVars, authVars, brVars, asmVars, tokVars>>

\* the end of the with block
SaveClose(w) ==
    /\ saving[w].active
    /\ saving[w].written = DocChunks
    /\ saving' = [saving EXCEPT ![w].active = FALSE]
    /\ committed' = [committed EXCEPT ![SitePath(w)] = Doc(w, saving[w].version)]
    /\ UNCHANGED <<fs, lastRead, selVars, apiVars, coVars, authVars, brVars, asmVars, tokVars>>

\* a load of an existing file (auth.py:27-28, auth.py:38-39, server.py:59-60,
\* YTMusic(browser.json) at browser_auth.py:46): it reads what the file holds
\* now. `complete` lists the complete contents of the moment: the one
\* before the save in progress, if any, and the one being saved.
Load(p) ==
    /\ fs[p].exists
    /\ lastRead' =
          [path |-> p, data |-> fs[p].data,
           complete |->
              (IF committed[p] # <<>> THEN {committed[p]} ELSE {})
              \cup {Doc(w, saving[w].version) :
                       w \in {u \in WriteSites : SitePath(u) = p /\ saving[u].active}}]
    /\ UNCHANGED <<fs, saving, committed, selVars, apiVars, coVars, authVars, brVars, asmVars, tokVars>>

StoreNext ==
    \/ \E w \in WriteSites : SaveOpen(w)
    \/ \E w \in WriteSites : SaveWrite(w)
    \/ \E w \in WriteSites : SaveClose(w)
    \/ \E p \in Paths : Load(p)

SpecStore == StoreInit /\ [][StoreNext]_vars

\* the argument lists the tools are given in SpecAuth and SpecBrowser:
\* tracks to assemble, queries to search, video ids to add
TrackLists == {<<T_A>>, <<T_A, T_B>>}
SearchLists == {<<"A">>, <<"A", "B">>}
IdLists == {<<"a1">>, <<"a1", "b1">>}

\* a tool's str return value, and a call of a tool: its name, its argument
\* and the state it found
Str(text) == [type |-> "str", value |-> text]

Call(tool, arg) ==
    [tool |-> tool, arg |-> arg,
     before |-> [pending |-> pending, oauth |-> oauth.exists,
                 creds |-> credsFile.exists, browser |-> bfile.exists]]

(***************************************************************************)
(* SpecToken: the OAuth tools of server.py against the clock.              *)
(***************************************************************************)
TokInit ==
    /\ SelIdle
    /\ ApiIdle
    /\ CoIdle
    /\ AsmIdle
    /\ FileIdle
    /\ AuthIdle
    /\ BrIdle
    /\ now = 0
    /\ oauth \in {[exists |-> FALSE],
                  [exists |-> TRUE, access_token |-> "", expires_at |-> TokenTTL],
                  [exists |-> TRUE, access_token |-> "tok0", expires_at |-> TokenTTL]}
    /\ tokRequests = <<>>
    /\ tokRet = NotYet

\* time passes
Tick ==
    /\ now < MaxTime
    /\ now' = now + 1
    /\ UNCHANGED <<oauth, tokRequests, tokRet, selVars, apiVars, coVars, authVars, brVars, asmVars, fileVars>>

\* the authorization flow stores a fresh token in oauth.json
StoreToken ==
    /\ now + TokenTTL <= MaxTime + 1
    /\ oauth' = [exists |-> TRUE, access_token |-> "tok1", expires_at |-> now + TokenTTL]
    /\ UNCHANGED <<now, tokRequests, tokRet, selVars, apiVars, coVars, authVars, brVars, asmVars, fileVars>>

\* server.py:53-71 with search_tracks_batch (youtube_api.py:172-186) and
\* search_tracks (17-93): one search request per query and, when it
\* answered items, one details request
ToolSearchTracksOn(lists) ==
    /\ \E qs \in lists :
       \E wished \in [1..Len(qs) -> {[status |-> 200, items |-> 0],
                                     [status |-> 200, items |-> 1],
                                     [status |-> 500, items |-> 0]}] :
          IF ~oauth.exists
          THEN /\ tokRet' = ToolError("Not authenticated")
               /\ tokRequests' = <<>>
          ELSE IF oauth.access_token = ""
          THEN /\ tokRet' = ToolError("No access token found in oauth.json")
               /\ tokRequests' = <<>>
          ELSE LET search(i) == Request("search", qs[i], oauth, now)
                   status(i) == StatusOf(search(i), wished[i].status)
                   reqs(i)   == IF status(i) = 200 /\ wished[i].items > 0
                                THEN <<search(i), Request("videos", qs[i], oauth, now)>>
                                ELSE <<search(i)>>
                   RECURSIVE all(_)
                   all(i) == IF i > Len(qs) THEN <<>> ELSE reqs(i) \o all(i + 1)
                   last(q) == CHOOSE i \in 1..Len(qs) :
                                 qs[i] = q /\ \A j \in (i + 1)..Len(qs) : qs[j] # q
               IN  /\ tokRequests' = all(1)
                   /\ tokRet' = [q \in {qs[i] : i \in 1..Len(qs)} |->
                                    IF status(last(q)) = 200
                                    THEN [items |-> wished[last(q)].items]
                                    ELSE [error |-> "Search failed"]]
    /\ lastCall' = Call("ytm_search_tracks", None)
    /\ UNCHANGED <<now, oauth, pending, credsFile, started, selVars, apiVars, coVars, brVars,
                   asmVars, fileVars>>

\* server.py:87-105 with create_playlist_from_ids (youtube_api.py:188-214):
\* the create request and, when it answered 200, one add request per id
ToolCreateFromIdsOn(lists) ==
    /\ \E ids \in lists :
       \E wishedCreate \in {200, 500} :
       \E wished \in [1..Len(ids) -> {200, 403}] :
          IF ~oauth.exists
          THEN /\ tokRet' = ToolError("Not authenticated")
               /\ tokRequests' = <<>>
          ELSE IF oauth.access_token = ""
          THEN /\ tokRet' = ToolError("No access token found in oauth.json")
               /\ tokRequests' = <<>>
          ELSE LET create == Request("create", "", oauth, now)
                   add(i) == Request("add", ids[i], oauth, now)
               IN  IF StatusOf(create, wishedCreate) # 200
                   THEN /\ tokRequests' = <<create>>
                        /\ tokRet' = ToolError("Failed to create playlist")
                   ELSE /\ tokRequests' = <<create>> \o [i \in 1..Len(ids) |-> add(i)]
                        /\ tokRet' = FromIdsResult(PlaylistId, ids,
                               [i \in 1..Len(ids) |-> StatusOf(add(i), wished[i]) = 200])
    /\ lastCall' = Call("ytm_create_playlist_from_ids", None)
    /\ UNCHANGED <<now, oauth, pending, credsFile, started, selVars, apiVars, coVars, brVars,
                   asmVars, fileVars>>

ToolSearchTracks == ToolSearchTracksOn(SeqsUpTo(TokQueries, MaxQueries))

ToolCreateFromIds == ToolCreateFromIdsOn(SeqsUpTo(IdPool, MaxQueries))

TokNext ==
    \/ Tick
    \/ StoreToken
    \/ ToolSearchTracks
    \/ ToolCreateFromIds

SpecToken == TokInit /\ [][TokNext]_vars

(***************************************************************************)
(* SpecAuth: the OAuth tools of server.py over AuthManager.                *)
(***************************************************************************)
OAuthClients == {"A", "B"}
DeviceCodes == {"dcA", "dcB"}

\* OAuthCredentials(client_id, client_secret)
OAuthCredentials(c) ==
    [client_id |-> c, client_secret |-> IF c = "A" THEN "secretA" ELSE "secretB"]

\* the device code the provider hands out to a client
DeviceCodeOf(c) == IF c = "A" THEN "dcA" ELSE "dcB"

\* an oauth.json of an earlier version, with the client credentials inside
LegacyOAuth ==
    [exists |-> TRUE, access_token |-> "tok0", expires_at |-> TokenTTL,
     oauth_credentials |-> [client_id |-> "L", client_secret |-> "secretL"]]

CredsDoc(creds) ==
    [exists |-> TRUE, client_id |-> creds.client_id,
     client_secret |-> creds.client_secret]

\* an exception that leaves the tool function
Raised(text) == [raised |-> text]

IsAuthenticatedAlways == TRUE

\* auth.py:17-18
IsAuthenticated == oauth.exists

\* the last two clients start_oauth was called for
Remember(hist, c) == IF Len(hist) < 2 THEN Append(hist, c) ELSE <<hist[2], c>>

\* auth.py:63-75: what start_oauth(client_id, client_secret) leaves and
\* returns when get_code() answers (ok) or raises
StartOAuthKeepsFirst(pend, c, ok) ==
    LET creds == IF pend = None THEN OAuthCredentials(c) ELSE pend
    IN  [pending  |-> creds,
         requests |-> <<[kind |-> "device_code", client_id |-> creds.client_id,
                         client_secret |-> creds.client_secret]>>,
         ret      |-> IF ok
                      THEN [verification_url |-> "url", user_code |-> "user",
                            device_code |-> DeviceCodeOf(c), interval |-> "5"]
                      ELSE Raised("get_code failed")]

StartOAuth(pend, c, ok) ==
    LET creds == OAuthCredentials(c)
    IN  [pending  |-> creds,
         requests |-> <<[kind |-> "device_code", client_id |-> creds.client_id,
                         client_secret |-> creds.client_secret]>>,
         ret      |-> IF ok
                      THEN [verification_url |-> "url", user_code |-> "user",
                            device_code |-> DeviceCodeOf(c), interval |-> "5"]
                      ELSE Raised("get_code failed")]

CompleteOutcomes == {"token", "refused", "store_failed", "creds_failed"}

NewToken(t) == [exists |-> TRUE, access_token |-> "tok1", expires_at |-> t + TokenTTL]

AuthSuccess == Str("Authentication successful. oauth.json and oauth_creds.json created.")

\* a complete_oauth that forgets the pending credentials when the provider
\* refuses the device code
CompleteOAuthForgetsOnRefusal(pend, tokenFile, creds, device_code, o, t) ==
    IF pend = None
    THEN [pending |-> pend, oauth |-> tokenFile, creds |-> creds, requests |-> <<>>,
          ret |-> Raised("No pending OAuth flow. Call start_oauth first.")]
    ELSE LET exchange == <<[kind |-> "token", client_id |-> pend.client_id,
                            client_secret |-> pend.client_secret,
                            device_code |-> device_code]>>
         IN  CASE o = "token" ->
                    [pending |-> None, oauth |-> NewToken(t), creds |-> CredsDoc(pend),
                     requests |-> exchange, ret |-> AuthSuccess]
               [] o = "creds_failed" ->
                    [pending |-> pend, oauth |-> NewToken(t), creds |-> creds,
                     requests |-> exchange, ret |-> Raised(o)]
               [] OTHER ->
                    [pending |-> None, oauth |-> tokenFile, creds |-> creds,
                     requests |-> exchange, ret |-> Raised(o)]

\* auth.py:77-111: what complete_oauth(device_code) leaves and returns.  o
\* is what happens on the way: the provider hands out the token or refuses
\* the code, store_token raises, or the write of oauth_creds.json raises.
CompleteOAuthKeepsPending(pend, tokenFile, creds, device_code, o, t) ==
    IF pend = None
    THEN [pending |-> pend, oauth |-> tokenFile, creds |-> creds, requests |-> <<>>,
          ret |-> Raised("No pending OAuth flow. Call start_oauth first.")]
    ELSE LET exchange == <<[kind |-> "token", client_id |-> pend.client_id,
                            client_secret |-> pend.client_secret,
                            device_code |-> device_code]>>
         IN  IF o = "token"
             THEN [pending |-> pend, oauth |-> NewToken(t), creds |-> CredsDoc(pend),
                   requests |-> exchange, ret |-> AuthSuccess]
             ELSE [pending |-> pend, oauth |-> tokenFile, creds |-> creds,
                   requests |-> exchange, ret |-> Raised(o)]

CompleteOAuth(pend, tokenFile, creds, device_code, o, t) ==
    IF pend = None
    THEN [pending |-> pend, oauth |-> tokenFile, creds |-> creds, requests |-> <<>>,
          ret |-> Raised("No pending OAuth flow. Call start_oauth first.")]
    ELSE LET exchange == <<[kind |-> "token", client_id |-> pend.client_id,
                            client_secret |-> pend.client_secret,
                            device_code |-> device_code]>>
         IN  CASE o = "token" ->
                    [pending |-> None, oauth |-> NewToken(t), creds |-> CredsDoc(pend),
                     requests |-> exchange, ret |-> AuthSuccess]
               [] o = "creds_failed" ->
                    [pending |-> pend, oauth |-> NewToken(t), creds |-> creds,
                     requests |-> exchange, ret |-> Raised(o)]
               [] OTHER ->
                    [pending |-> pend, oauth |-> tokenFile, creds |-> creds,
                     requests |-> exchange, ret |-> Raised(o)]

\* a get_ytmusic whose legacy branch rewrites oauth.json whenever it embeds
\* the credentials
GetYtmusicFilesAlwaysCleans(tokenFile, creds) ==
    IF "oauth_credentials" \in DOMAIN tokenFile
    THEN [oauth |-> [k \in DOMAIN tokenFile \ {"oauth_credentials"} |-> tokenFile[k]],
          creds |-> IF creds.exists THEN creds
                    ELSE [exists |-> TRUE] @@ tokenFile.oauth_credentials]
    ELSE [oauth |-> tokenFile, creds |-> creds]

\* auth.py:25-61: the two files as get_ytmusic leaves them. With no
\* oauth_creds.json and 'oauth_credentials' inside oauth.json, that object
\* is dumped to oauth_creds.json (42-45) and oauth.json is rewritten
\* without the key (48-50); otherwise nothing is written.
GetYtmusicFiles(tokenFile, creds) ==
    IF ~creds.exists /\ "oauth_credentials" \in DOMAIN tokenFile
    THEN [oauth |-> [k \in DOMAIN tokenFile \ {"oauth_credentials"} |-> tokenFile[k]],
          creds |-> [exists |-> TRUE] @@ tokenFile.oauth_credentials]
    ELSE [oauth |-> tokenFile, creds |-> creds]

\* the files a session starts with: none, a legacy oauth.json alone, or a
\* legacy oauth.json next to an oauth_creds.json
AuthFiles ==
    { [oauth |-> [exists |-> FALSE], creds |-> [exists |-> FALSE]],
      [oauth |-> LegacyOAuth, creds |-> [exists |-> FALSE]],
      [oauth |-> LegacyOAuth, creds |-> CredsDoc(OAuthCredentials("A"))] }

AuthInit ==
    /\ SelIdle
    /\ ApiIdle
    /\ CoIdle
    /\ AsmIdle
    /\ FileIdle
    /\ BrIdle
    /\ now = 0
    /\ \E f \in AuthFiles : oauth = f.oauth /\ credsFile = f.creds
    /\ tokRequests = <<>>
    /\ tokRet = NotYet
    /\ pending = None
    /\ lastCall = NotYet
    /\ started = <<>>

\* server.py:18-27
ToolGetAuthUrl ==
    /\ \E c \in OAuthClients : \E ok \in BOOLEAN :
          LET r == StartOAuth(pending, c, ok)
          IN  /\ lastCall' = Call("ytm_get_auth_url", c)
              /\ pending' = r.pending
              /\ started' = Remember(started, c)
              /\ tokRequests' = r.requests
              /\ tokRet' = r.ret
    /\ UNCHANGED <<now, oauth, credsFile, selVars, apiVars, coVars, asmVars, fileVars, brVars>>

\* server.py:29-35
ToolAuthenticate ==
    /\ \E device_code \in DeviceCodes : \E o \in CompleteOutcomes :
          LET r == CompleteOAuth(pending, oauth, credsFile, device_code, o, now)
          IN  /\ lastCall' = Call("ytm_authenticate", device_code)
              /\ pending' = r.pending
              /\ oauth' = r.oauth
              /\ credsFile' = r.creds
              /\ tokRequests' = r.requests
              /\ tokRet' = r.ret
    /\ UNCHANGED <<now, started, selVars, apiVars, coVars, asmVars, fileVars, brVars>>

\* server.py:121-128 with AuthManager.get_ytmusic (auth.py:20-61), up to the
\* call of create_playlist_batch, whose steps are the actions of Spec
ToolCreatePlaylistYtmusic ==
    /\ \E qs \in TrackLists : \E built \in BOOLEAN :
          /\ lastCall' = Call("ytm_create_playlist_ytmusic", qs)
          /\ tokRequests' = <<>>
          /\ IF ~IsAuthenticated
             THEN /\ tokRet' = ToolError("Not authenticated. Please run auth flow.")
                  /\ UNCHANGED <<oauth, credsFile, op, queries, pc>>
             ELSE /\ oauth' = GetYtmusicFiles(oauth, credsFile).oauth
                  /\ credsFile' = GetYtmusicFiles(oauth, credsFile).creds
                  /\ IF built
                     THEN /\ tokRet' = NotYet
                          /\ op' = "batch"
                          /\ queries' = qs
                          /\ pc' = "create"
                     ELSE /\ tokRet' = ToolError("YTMusic init failed")
                          /\ UNCHANGED <<op, queries, pc>>
    /\ UNCHANGED <<now, pending, started, playlist_id, results, video_ids,
                   add_results, ret, createOutcome, searchLog, addLog, remoteItems,
                   selVars, apiVars, coVars, fileVars, brVars>>

AuthNext ==
    \/ ToolGetAuthUrl
    \/ ToolAuthenticate
    \/ ToolSearchTracksOn(SearchLists)
    \/ ToolCreateFromIdsOn(IdLists)
    \/ ToolCreatePlaylistYtmusic

SpecAuth == AuthInit /\ [][AuthNext]_vars

(***************************************************************************)
(* SpecComplete: complete_oauth taken one statement at a time, next to     *)
(* start_oauth and to callers of is_authenticated() and get_ytmusic() on   *)
(* the same files.                                                         *)
(***************************************************************************)
CoInit ==
    /\ SelIdle
    /\ ApiIdle
    /\ AsmIdle
    /\ FileIdle
    /\ TokIdle
    /\ AuthIdle
    /\ BrIdle
    /\ completing = None
    /\ observed = NotYet

\* auth.py:82-83: the check of _pending_credentials
CoBegin ==
    /\ completing = None
    /\ \E device_code \in DeviceCodes :
          /\ lastCall' = Call("ytm_authenticate", device_code)
          /\ IF pending = None
             THEN /\ tokRet' = Raised("No pending OAuth flow. Call start_oauth first.")
                  /\ UNCHANGED completing
             ELSE /\ tokRet' = NotYet
                  /\ completing' = [pc |-> "exchange", device_code |-> device_code]
    /\ tokRequests' = <<>>
    /\ UNCHANGED <<now, oauth, pending, credsFile, started, observed,
                   selVars, apiVars, asmVars, fileVars, brVars>>

\* auth.py:89-95: token_from_code and RefreshingToken(...); the provider
\* hands out the token or the exchange raises
CoExchange ==
    /\ completing # None
    /\ completing.pc = "exchange"
    /\ pending # None
    /\ tokRequests' = <<[kind |-> "token", client_id |-> pending.client_id,
                         client_secret |-> pending.client_secret,
                         device_code |-> completing.device_code]>>
    /\ \E o \in {"token", "refused"} :
          IF o = "token"
          THEN /\ completing' = [completing EXCEPT !.pc = "store"]
               /\ UNCHANGED tokRet
          ELSE /\ completing' = None
               /\ tokRet' = Raised(o)
    /\ UNCHANGED <<now, oauth, pending, credsFile, lastCall, started, observed,
                   selVars, apiVars, asmVars, fileVars, brVars>>

\* auth.py:98: store_token writes oauth.json, or raises
CoStoreToken ==
    /\ completing # None
    /\ completing.pc = "store"
    /\ \E ok \in BOOLEAN :
          IF ok
          THEN /\ oauth' = NewToken(now)
               /\ completing' = [completing EXCEPT !.pc = "creds"]
               /\ UNCHANGED tokRet
          ELSE /\ completing' = None
               /\ tokRet' = Raised("store_failed")
               /\ UNCHANGED oauth
    /\ UNCHANGED <<now, tokRequests, pending, credsFile, lastCall, started, observed,
                   selVars, apiVars, asmVars, fileVars, brVars>>

\* auth.py:101-106: the credentials are dumped to oauth_creds.json, or the
\* write raises
CoWriteCreds ==
    /\ completing # None
    /\ completing.pc = "creds"
    /\ pending # None
    /\ \E ok \in BOOLEAN :
          IF ok
          THEN /\ credsFile' = CredsDoc(pending)
               /\ completing' = [completing EXCEPT !.pc = "clear"]
               /\ UNCHANGED tokRet
          ELSE /\ completing' = None
               /\ tokRet' = Raised("creds_failed")
               /\ UNCHANGED credsFile
    /\ UNCHANGED <<now, oauth, tokRequests, pending, lastCall, started, observed,
                   selVars, apiVars, asmVars, fileVars, brVars>>

\* auth.py:109-111
CoClear ==
    /\ completing # None
    /\ completing.pc = "clear"
    /\ pending' = None
    /\ completing' = None
    /\ tokRet' = AuthSuccess
    /\ UNCHANGED <<now, oauth, tokRequests, credsFile, lastCall, started, observed,
                   selVars, apiVars, asmVars, fileVars, brVars>>

\* auth.py:17-18 from another caller
ObserveIsAuthenticated ==
    /\ observed' = [fn |-> "is_authenticated", authenticated |-> IsAuthenticated,
                    creds |-> credsFile.exists, during |-> completing # None]
    /\ UNCHANGED <<completing, selVars, apiVars, asmVars, fileVars, tokVars,
                   authVars, brVars>>

\* auth.py:20-61 from another caller: raises when not authenticated, else
\* builds a session from the files it finds (migrating a legacy oauth.json)
ObserveGetYtmusic ==
    /\ observed' = [fn |-> "get_ytmusic", authenticated |-> IsAuthenticated,
                    creds |-> credsFile.exists, during |-> completing # None]
    /\ IF IsAuthenticated
       THEN /\ oauth' = GetYtmusicFiles(oauth, credsFile).oauth
            /\ credsFile' = GetYtmusicFiles(oauth, credsFile).creds
       ELSE UNCHANGED <<oauth, credsFile>>
    /\ UNCHANGED <<completing, now, tokRequests, tokRet, pending, lastCall, started,
                   selVars, apiVars, asmVars, fileVars, brVars>>

CoNext ==
    \/ ToolGetAuthUrl
    \/ CoBegin
    \/ CoExchange
    \/ CoStoreToken
    \/ CoWriteCreds
    \/ CoClear
    \/ ObserveIsAuthenticated
    \/ ObserveGetYtmusic

SpecComplete == CoInit /\ [][CoNext]_vars

(***************************************************************************)
(* Header normalization of ytm_setup_browser_auth_from_curl                *)
(* (server.py:180-220).  A cURL command is the sequence of its -H and -b   *)
(* arguments in the order re.finditer meets them; a header name is a       *)
(* sequence of characters, a header value is given as value.strip() left   *)
(* it.                                                                     *)
(***************************************************************************)
MaxArgs == 3

\* str.strip() on blanks
RECURSIVE LStrip(_)
LStrip(s) == IF s # <<>> /\ Head(s) = " " THEN LStrip(Tail(s)) ELSE s

RECURSIVE RStrip(_)
RStrip(s) ==
    IF s # <<>> /\ s[Len(s)] = " " THEN RStrip(SubSeq(s, 1, Len(s) - 1)) ELSE s

Strip(s) == RStrip(LStrip(s))

\* header names as they appear in a copied command
H_Cookie        == <<"C","o","o","k","i","e">>
H_authorization == <<"a","u","t","h","o","r","i","z","a","t","i","o","n">>
H_Accept_sp     == <<"A","c","c","e","p","t"," ">>
H_XExtra        == <<"X","-","E","x","t","r","a">>
H_NoColon       == <<"G","E","T">>

\* the keys the tool looks up
K_cookie          == <<"c","o","o","k","i","e">>
K_authorization   == H_authorization
K_user_agent      == <<"u","s","e","r","-","a","g","e","n","t">>
K_accept          == <<"a","c","c","e","p","t">>
K_accept_language == K_accept \o <<"-","l","a","n","g","u","a","g","e">>
K_content_type    == <<"c","o","n","t","e","n","t","-","t","y","p","e">>
K_x_goog_authuser == <<"x","-","g","o","o","g","-","a","u","t","h","u","s","e","r">>
K_x_origin        == <<"x","-","o","r","i","g","i","n">>

\* -H 'name: value', -H 'text' without a colon, -b 'cookies'
HArg(name, value) == [flag |-> "-H", colon |-> TRUE, name |-> name, value |-> value]
HNoColon(text)    == [flag |-> "-H", colon |-> FALSE, name |-> text, value |-> ""]
BArg(value)       == [flag |-> "-b", value |-> value]

CurlArgPool ==
    { HArg(H_Cookie, "c1"), HArg(H_Cookie, ""), HArg(H_authorization, "a1"),
      HArg(H_Accept_sp, "text/html"), HArg(H_XExtra, "x"),
      HNoColon(H_NoColon), BArg("c2") }

CurlCommands == SeqsUpTo(CurlArgPool, MaxArgs)

\* a dict, d[k] = v and d.get(k, default)
EmptyDict == [k \in {} |-> ""]
DictPut(d, k, v) == [x \in DOMAIN d \cup {k} |-> IF x = k THEN v ELSE d[x]]
DictGet(d, k, default) == IF k \in DOMAIN d THEN d[k] ELSE default

\* server.py:190-194: every -H argument with a colon sets
\* headers[key.strip().lower()], a later one replacing an earlier one
RECURSIVE HeadersFrom(_, _)
HeadersFrom(cmd, headers) ==
    IF cmd = <<>> THEN headers
    ELSE LET a == Head(cmd)
         IN  HeadersFrom(Tail(cmd),
                 IF a.flag = "-H" /\ a.colon
                 THEN DictPut(headers, Lower(Strip(a.name)), a.value)
                 ELSE headers)

\* server.py:197-200: the first -b argument, when there is one, becomes the
\* cookie
CurlHeaders(cmd) ==
    LET headers == HeadersFrom(cmd, EmptyDict)
        bs == {i \in 1..Len(cmd) : cmd[i].flag = "-b"}
    IN  IF bs # {}
        THEN DictPut(headers, K_cookie,
                     cmd[CHOOSE i \in bs : \A j \in bs : i <= j].value)
        ELSE headers

\* server.py:202 `if not headers.get("cookie")`: no cookie key, or an empty
\* value
CookieMissingOnlyAbsent(headers) == K_cookie \notin DOMAIN headers

CookieMissing(headers) == DictGet(headers, K_cookie, "") = ""

NoCookiesError ==
    [success |-> FALSE, error |-> "No cookies found in cURL command"]

\* server.py:209-220
BrowserJsonAlwaysAuthorization(headers) ==
       ("User-Agent" :> DictGet(headers, K_user_agent, "Mozilla/5.0"))
    @@ ("Accept" :> DictGet(headers, K_accept, "*/*"))
    @@ ("Accept-Language" :> DictGet(headers, K_accept_language, "en-US,en;q=0.9"))
    @@ ("Content-Type" :> DictGet(headers, K_content_type, "application/json"))
    @@ ("X-Goog-AuthUser" :> DictGet(headers, K_x_goog_authuser, "0"))
    @@ ("x-origin" :> DictGet(headers, K_x_origin, "https://music.youtube.com"))
    @@ ("Cookie" :> headers[K_cookie])
    @@ ("Authorization" :> DictGet(headers, K_authorization, ""))

BrowserJson(headers) ==
    LET base ==
          ("User-Agent" :> DictGet(headers, K_user_agent, "Mozilla/5.0"))
       @@ ("Accept" :> DictGet(headers, K_accept, "*/*"))
       @@ ("Accept-Language" :> DictGet(headers, K_accept_language, "en-US,en;q=0.9"))
       @@ ("Content-Type" :> DictGet(headers, K_content_type, "application/json"))
       @@ ("X-Goog-AuthUser" :> DictGet(headers, K_x_goog_authuser, "0"))
       @@ ("x-origin" :> DictGet(headers, K_x_origin, "https://music.youtube.com"))
       @@ ("Cookie" :> headers[K_cookie])
    IN  IF K_authorization \in DOMAIN headers
        THEN base @@ ("Authorization" :> headers[K_authorization])
        ELSE base

(***************************************************************************)
(* SpecBrowser: the browser-credential tools of server.py over             *)
(* BrowserAuthManager.  browser_json_path is the default                   *)
(* ~/.config/ytmusic-mcp/browser.json, the path the cURL tool writes.      *)
(***************************************************************************)
HeaderInputs == {"h1", "bad"}

\* what ytmusicapi.setup(headers_raw=...) writes for accepted headers
HeadersCredential(headers_raw) == [src |-> "headers_raw", raw |-> headers_raw]

\* the commands the cURL tool is given in SpecBrowser
BrowserCurlCommands ==
    { <<HArg(H_Cookie, "c1")>>,
      <<HArg(H_Cookie, "c1"), HArg(H_authorization, "a1")>>,
      <<HArg(H_authorization, "a1")>> }

BrowserIsAuthenticated == bfile.exists

\* browser_auth.py:40-48 on a given file and cache: it raises without a
\* file, builds YTMusic(browser.json) when nothing is cached (the
\* constructor may refuse the file), and returns the cached session otherwise
GetYtmusic(file, cache) ==
    IF ~file.exists
    THEN {[raised |-> TRUE, error |-> "Browser auth not found", cache |-> cache]}
    ELSE IF cache = None
    THEN {[raised |-> FALSE, session |-> [cred |-> file.cred],
           cache |-> [cred |-> file.cred]],
          [raised |-> TRUE, error |-> "YTMusic init failed", cache |-> cache]}
    ELSE {[raised |-> FALSE, session |-> cache, cache |-> cache]}

Got(g, file) ==
    IF g.raised THEN lastGot ELSE [cred |-> g.session.cred, file |-> file.cred]

\* what a remote call through a session can answer
RemoteOutcomes(session, rej) ==
    IF session.cred \in rej THEN {"auth_failure"} ELSE {"hits", "nohits", "error"}

BrowserRequest(kind, session) == [kind |-> kind, cred |-> session.cred]

\* browser_auth.py:74-101 on a given file and cache: each possible run
ValidateAuth(file, cache, rej) ==
    UNION { IF g.raised
            THEN {[ret |-> [valid |-> FALSE, error |-> g.error],
                   g |-> g, requests |-> <<>>, failed |-> FALSE]}
            ELSE { [ret |-> IF o \in {"auth_failure", "error"}
                            THEN [valid |-> FALSE, error |-> o]
                            ELSE [valid |-> TRUE, can_access_library |-> TRUE,
                                  can_search |-> (o = "hits")],
                    g |-> g,
                    requests |->
                       IF o \in {"auth_failure", "error"}
                       THEN <<BrowserRequest("get_library_playlists", g.session)>>
                       ELSE <<BrowserRequest("get_library_playlists", g.session),
                              BrowserRequest("search", g.session)>>,
                    failed |-> (o = "auth_failure")]
                   : o \in RemoteOutcomes(g.session, rej) }
          : g \in GetYtmusic(file, cache) }

BrInit ==
    /\ SelIdle
    /\ ApiIdle
    /\ CoIdle
    /\ AsmIdle
    /\ FileIdle
    /\ TokIdle
    /\ AuthIdle
    /\ BrIdle

\* the remote service ends the session of the stored credential
Revoke ==
    /\ bfile.exists
    /\ rejected = {}
    /\ rejected' = {bfile.cred}
    /\ UNCHANGED <<bfile, ytCache, authFailed, lastGot, curl_command,
                   selVars, apiVars, coVars, asmVars, fileVars, tokVars, authVars>>

\* server.py:266-269 with setup_from_headers (browser_auth.py:50-72)
ToolSetupBrowserAuth ==
    /\ \E h \in HeaderInputs : \E wrote \in BOOLEAN :
          /\ lastCall' = Call("ytm_setup_browser_auth", h)
          /\ IF h = "bad" \/ ~wrote
             THEN /\ tokRet' = Str("Error setting up browser auth")
                  /\ UNCHANGED <<bfile, ytCache, authFailed>>
             ELSE /\ bfile' = [exists |-> TRUE, cred |-> HeadersCredential(h)]
                  /\ ytCache' = None
                  /\ authFailed' = FALSE
                  /\ tokRet' = Str("Browser authentication saved")
    /\ tokRequests' = <<>>
    /\ UNCHANGED <<rejected, lastGot, curl_command, now, oauth, pending, credsFile, started,
                   selVars, apiVars, coVars, asmVars, fileVars>>

\* server.py:180-245
ToolSetupFromCurl(cmd) ==
    LET headers == CurlHeaders(cmd)
    IN  /\ curl_command' = cmd
        /\ lastCall' = Call("ytm_setup_browser_auth_from_curl", cmd)
        /\ IF CookieMissing(headers)
           THEN /\ tokRet' = NoCookiesError
                /\ tokRequests' = <<>>
                /\ UNCHANGED <<bfile, ytCache, authFailed, lastGot>>
           ELSE \E wrote \in BOOLEAN :
                IF ~wrote
                THEN /\ tokRet' = [success |-> FALSE, error |-> "OSError"]
                     /\ tokRequests' = <<>>
                     /\ UNCHANGED <<bfile, ytCache, authFailed, lastGot>>
                ELSE LET file == [exists |-> TRUE, cred |-> BrowserJson(headers)]
                     IN  \E v \in ValidateAuth(file, ytCache, rejected) :
                            /\ bfile' = file
                            /\ ytCache' = v.g.cache
                            /\ lastGot' = Got(v.g, file)
                            /\ authFailed' = v.failed
                            /\ tokRequests' = v.requests
                            /\ tokRet' = [success |-> TRUE, valid |-> v.ret.valid]
        /\ UNCHANGED <<rejected, now, oauth, pending, credsFile, started,
                       selVars, apiVars, coVars, asmVars, fileVars>>

\* server.py:279-285
ToolValidateBrowserAuth ==
    /\ lastCall' = Call("ytm_validate_browser_auth", None)
    /\ IF ~BrowserIsAuthenticated
       THEN /\ tokRet' = [valid |-> FALSE, message |-> "No browser authentication found"]
            /\ tokRequests' = <<>>
            /\ UNCHANGED <<ytCache, authFailed, lastGot>>
       ELSE \E v \in ValidateAuth(bfile, ytCache, rejected) :
               /\ ytCache' = v.g.cache
               /\ lastGot' = Got(v.g, bfile)
               /\ authFailed' = (authFailed \/ v.failed)
               /\ tokRequests' = v.requests
               /\ tokRet' = v.ret
    /\ UNCHANGED <<bfile, rejected, curl_command, now, oauth, pending, credsFile, started,
                   selVars, apiVars, coVars, asmVars, fileVars>>

\* server.py:299-308 with search_tracks_detailed (browser_auth.py:248-289):
\* one search per query, each answer or error stored under its query
ToolSearchBrowser ==
    /\ \E qs \in SearchLists :
          /\ lastCall' = Call("ytm_search_browser", qs)
          /\ IF ~BrowserIsAuthenticated
             THEN /\ tokRet' = ToolError("Browser auth not configured")
                  /\ tokRequests' = <<>>
                  /\ UNCHANGED <<ytCache, authFailed, lastGot>>
             ELSE \E g \in GetYtmusic(bfile, ytCache) :
                  /\ ytCache' = g.cache
                  /\ lastGot' = Got(g, bfile)
                  /\ IF g.raised
                     THEN /\ tokRet' = ToolError(g.error)
                          /\ tokRequests' = <<>>
                          /\ UNCHANGED authFailed
                     ELSE \E o \in [1..Len(qs) -> RemoteOutcomes(g.session, rejected)] :
                          LET last(q) == CHOOSE i \in 1..Len(qs) :
                                  qs[i] = q /\ \A j \in (i + 1)..Len(qs) : qs[j] # q
                          IN  /\ tokRequests' =
                                    [i \in 1..Len(qs) |-> BrowserRequest("search", g.session)]
                              /\ authFailed' =
                                    (authFailed \/ \E i \in 1..Len(qs) : o[i] = "auth_failure")
                              /\ tokRet' = [q \in {qs[i] : i \in 1..Len(qs)} |->
                                    IF o[last(q)] \in {"auth_failure", "error"}
                                    THEN [error |-> o[last(q)]]
                                    ELSE [items |-> IF o[last(q)] = "hits" THEN 1 ELSE 0]]
    /\ UNCHANGED <<bfile, rejected, curl_command, now, oauth, pending, credsFile, started,
                   selVars, apiVars, coVars, asmVars, fileVars>>

\* server.py:324-333 up to the call of search_and_create_playlist, whose
\* steps are the actions of Spec
ToolCreatePlaylistBrowser ==
    /\ \E qs \in TrackLists :
          /\ lastCall' = Call("ytm_create_playlist_browser", qs)
          /\ tokRequests' = <<>>
          /\ IF ~BrowserIsAuthenticated
             THEN /\ tokRet' = ToolError("Browser auth not configured")
                  /\ UNCHANGED <<ytCache, lastGot, op, queries, pc>>
             ELSE \E g \in GetYtmusic(bfile, ytCache) :
                  /\ ytCache' = g.cache
                  /\ lastGot' = Got(g, bfile)
                  /\ IF g.raised
                     THEN /\ tokRet' = ToolError(g.error)
                          /\ UNCHANGED <<op, queries, pc>>
                     ELSE /\ tokRet' = NotYet
                          /\ op' = "browser"
                          /\ queries' = qs
                          /\ pc' = "create"
    /\ UNCHANGED <<bfile, rejected, authFailed, curl_command, now, oauth,
                   pending, credsFile, started, playlist_id, results, video_ids,
                   add_results, ret, createOutcome, searchLog, addLog, remoteItems,
                   selVars, apiVars, coVars, fileVars>>

BrNext ==
    \/ Revoke
    \/ ToolSetupBrowserAuth
    \/ \E cmd \in BrowserCurlCommands : ToolSetupFromCurl(cmd)
    \/ ToolValidateBrowserAuth
    \/ ToolSearchBrowser
    \/ ToolCreatePlaylistBrowser

SpecBrowser == BrInit /\ [][BrNext]_vars

(***************************************************************************)
(* SpecCurl: ytm_setup_browser_auth_from_curl on every bounded command,    *)
(* called on a manager that holds no file and no session.                  *)
(***************************************************************************)
CurlInit ==
    /\ SelIdle
    /\ ApiIdle
    /\ CoIdle
    /\ AsmIdle
    /\ FileIdle
    /\ TokIdle
    /\ AuthIdle
    /\ bfile = [exists |-> FALSE]
    /\ ytCache = None
    /\ rejected = {}
    /\ authFailed = FALSE
    /\ lastGot = NotYet
    /\ curl_command \in CurlCommands

CallSetupFromCurl ==
    /\ lastCall = NotYet
    /\ ToolSetupFromCurl(curl_command)

CurlNext == CallSetupFromCurl

SpecCurl == CurlInit /\ [][CurlNext]_vars

(***************************************************************************)
(* YouTubeAPI.search_tracks, PlaylistBuilder.search_tracks_batch and       *)
(* BrowserPlaylistManager.search_tracks_detailed                           *)
(***************************************************************************)
W_remaster == <<"r","e","m","a","s","t","e","r">>
W_remastered == W_remaster \o <<"e","d">>
W_2020 == <<"2","0","2","0">>
W_2021 == <<"2","0","2","1">>
W_2022 == <<"2","0","2","2">>
W_2023 == <<"2","0","2","3">>
W_2024 == <<"2","0","2","4">>

\* youtube_api.py:69-70, the word list behind isRemaster
ApiRemasterWords == {W_remaster, W_remastered, W_2020, W_2021, W_2022, W_2023, W_2024}

\* browser_auth.py:276, the word list behind search_tracks_detailed's isRemix
DetailedRemixWords == {W_remix, W_rmx, W_rework, W_edit}

T_A2020 == <<"A"," ","(","2","0","2","0",")">>

\* a Python list as a return value
PyList(xs) == [type |-> "list", value |-> xs]

\* one item of the answer of GET /search: the keys search_tracks reads
Item(vid, title, live) ==
    [videoId |-> vid, title |-> title, liveBroadcastContent |-> live]

I_A       == Item("a1", T_A, "none")
I_Bootleg == Item("r1", T_OtherBootleg, "none")
I_Live    == Item("l1", T_A2020, "live")

\* what the remote service answers to one search_tracks call: the status of
\* GET /search, its items, and the status of the GET /videos that follows
Answer(status, items, details) ==
    [status |-> status, items |-> items, details |-> details]

SearchAnswers ==
    { Answer(200, <<>>, 200),
      Answer(200, <<I_A>>, 200),
      Answer(200, <<I_Bootleg, I_Live>>, 500),
      Answer(401, <<>>, 200),
      Answer(500, <<>>, 200) }

\* youtube_api.py:95-116: {} on a status other than 200, else the details
\* of each video
GetVideoDetails(ids, status) ==
    IF status # 200 THEN EmptyDict
    ELSE [v \in {ids[i] : i \in 1..Len(ids)} |->
             [duration |-> "PT3M", viewCount |-> 0, likeCount |-> 0]]

\* a search_tracks that answers an empty list when the request failed
SearchTracksEmptyOnFailure(query, answer) ==
    IF answer.status # 200 THEN PyList(<<>>)
    ELSE PyList([i \in 1..Len(answer.items) |->
                    [videoId |-> answer.items[i].videoId,
                     title |-> answer.items[i].title]])

\* youtube_api.py:17-93 (of the snippet only the keys the heuristics read
\* are kept)
SearchTracks(query, answer) ==
    IF answer.status # 200 THEN Raised("Search failed")
    ELSE LET items     == answer.items
             ids == [i \in 1..Len(items) |-> items[i].videoId]
             details   == IF ids # <<>>
                          THEN GetVideoDetails(ids, answer.details)
                          ELSE EmptyDict
             result(item) ==
                 LET title_lower == Lower(item.title)
                     base == [videoId |-> item.videoId,
                              title |-> item.title,
                              isLive |-> item.liveBroadcastContent # "none",
                              isRemix |-> \E w \in ApiRemixWords :
                                              Contains(w, title_lower),
                              isRemaster |-> \E w \in ApiRemasterWords :
                                              Contains(w, title_lower)]
                 IN  IF item.videoId \in DOMAIN details
                     THEN details[item.videoId] @@ base
                     ELSE base
         IN  PyList([i \in 1..Len(items) |-> result(items[i])])

\* the value search_tracks_batch stores for one query: the list, or
\* {"error": str(e)}
BatchEntry(r) == IF "raised" \in DOMAIN r THEN [error |-> r.raised] ELSE r

\* a batch loop that returns what it has when a search raises
RECURSIVE SearchTracksBatchAbortOnError(_, _, _, _)
SearchTracksBatchAbortOnError(qs, answers, i, res) ==
    IF i > Len(qs) THEN res
    ELSE LET r == SearchTracks(qs[i], answers[i])
         IN  IF "raised" \in DOMAIN r
             THEN DictPut(res, qs[i], BatchEntry(r))
             ELSE SearchTracksBatchAbortOnError(qs, answers, i + 1,
                      DictPut(res, qs[i], BatchEntry(r)))

\* youtube_api.py:179-186: the loop from the i-th query on, `res` (results) being
\* the dict so far
RECURSIVE SearchTracksBatchFrom(_, _, _, _)
SearchTracksBatchFrom(qs, answers, i, res) ==
    IF i > Len(qs) THEN res
    ELSE SearchTracksBatchFrom(qs, answers, i + 1,
             DictPut(res, qs[i],
                     BatchEntry(SearchTracks(qs[i], answers[i]))))

SearchTracksBatch(qs, answers) ==
    SearchTracksBatchFrom(qs, answers, 1, EmptyDict)

\* what ytmusic.search does for one query of search_tracks_detailed: raise,
\* or return a list of songs (the last list ends in a song with
\* "album": None)
DetailedOutcomes ==
    { [kind |-> "raise"],
      [kind |-> "ok", hits |-> <<>>],
      [kind |-> "ok", hits |-> <<Cand("a1", T_A, <<N_Artist>>, FALSE, AlbumDict)>>],
      [kind |-> "ok", hits |-> <<Cand("a2", T_ALive, <<N_Artist, N_Band>>, FALSE, AlbumDict),
                                 Cand("b1", T_B, <<N_Band>>, FALSE, None)>>] }

\* browser_auth.py:265-282, one item
DetailedResult(item) ==
    [videoId |-> item.videoId,
     title |-> item.title,
     artists |-> [i \in 1..Len(item.artists) |-> item.artists[i].name],
     album |-> item.album.name,
     duration |-> item.duration,
     isExplicit |-> item.isExplicit,
     isRemix |-> \E w \in DetailedRemixWords : Contains(w, Lower(item.title)),
     isLive |-> Contains(W_live, Lower(item.title)),
     isCover |-> Contains(W_cover, Lower(item.title))]

\* browser_auth.py:261-287, the try block for one query: the list, or the
\* exception (the search raising, or .get("name") on an album that is None)
DetailedSearch(query, outcome) ==
    IF outcome.kind = "raise" THEN Raised("search failed")
    ELSE IF \E i \in 1..Len(outcome.hits) : outcome.hits[i].album = None
    THEN Raised("AttributeError")
    ELSE PyList([i \in 1..Len(outcome.hits) |-> DetailedResult(outcome.hits[i])])

\* browser_auth.py:258-289: the loop over qs (queries) from the i-th on,
\* res (results) being the dict so far
RECURSIVE SearchTracksDetailedFrom(_, _, _, _)
SearchTracksDetailedFrom(qs, outcomes, i, res) ==
    IF i > Len(qs) THEN res
    ELSE SearchTracksDetailedFrom(qs, outcomes, i + 1,
             DictPut(res, qs[i],
                     BatchEntry(DetailedSearch(qs[i], outcomes[i]))))

SearchTracksDetailed(qs, outcomes) ==
    SearchTracksDetailedFrom(qs, outcomes, 1, EmptyDict)

(***************************************************************************)
(* SpecApi: one call of one of the three search functions on a bounded     *)
(* input.                                                                  *)
(***************************************************************************)
ApiInit ==
    /\ SelIdle
    /\ AsmIdle
    /\ FileIdle
    /\ TokIdle
    /\ AuthIdle
    /\ BrIdle
    /\ CoIdle
    /\ apiCall = NotYet
    /\ apiRet = NotYet

CallSearchTracks ==
    /\ apiCall = NotYet
    /\ \E query \in AsmQueries, answer \in SearchAnswers :
          /\ apiCall' = [fn |-> "search_tracks", queries |-> <<query>>,
                         answers |-> <<answer>>]
          /\ apiRet' = SearchTracks(query, answer)
    /\ UNCHANGED <<selVars, asmVars, fileVars, tokVars, authVars, brVars, coVars>>

CallSearchTracksBatch ==
    /\ apiCall = NotYet
    /\ \E qs \in SeqsUpTo(AsmQueries, MaxQueries) :
       \E answers \in [1..Len(qs) -> SearchAnswers] :
          /\ apiCall' = [fn |-> "search_tracks_batch", queries |-> qs,
                         answers |-> answers]
          /\ apiRet' = SearchTracksBatch(qs, answers)
    /\ UNCHANGED <<selVars, asmVars, fileVars, tokVars, authVars, brVars, coVars>>

CallSearchTracksDetailed ==
    /\ apiCall = NotYet
    /\ \E qs \in SeqsUpTo(AsmQueries, MaxQueries) :
       \E outcomes \in [1..Len(qs) -> DetailedOutcomes] :
          /\ apiCall' = [fn |-> "search_tracks_detailed", queries |-> qs,
                         answers |-> outcomes]
          /\ apiRet' = SearchTracksDetailed(qs, outcomes)
    /\ UNCHANGED <<selVars, asmVars, fileVars, tokVars, authVars, brVars, coVars>>

ApiNext ==
    \/ CallSearchTracks
    \/ CallSearchTracksBatch
    \/ CallSearchTracksDetailed

SpecApi == ApiInit /\ [][ApiNext]_vars

(***************************************************************************)
(* Properties of the assemble operations (checked under Spec).             *)
(***************************************************************************)
\* C1: once the playlist exists, search_and_create_playlist returns a
\* 'details' list with exactly one entry per input query, the i-th entry
\* carrying the i-th query, whatever each search did (returned candidates,
\* returned nothing, raised).
C1_DetailsOnePerQuery ==
    (op = "browser" /\ pc = "done" /\ createOutcome \in {"id", "otherdict"}) =>
        /\ "details" \in DOMAIN ret
        /\ Len(ret.details) = Len(queries)
        /\ \A i \in 1..Len(queries) : ret.details[i].query = queries[i]

\* a finished two-query invocation in which one search raised and another
\* returned candidates
C1_Witness ==
    /\ op = "browser" /\ pc = "done" /\ createOutcome = "id"
    /\ Len(queries) = 2
    /\ \E i, j \in 1..Len(searchLog) :
          /\ searchLog[i].kind = "raise"
          /\ searchLog[j].kind = "ok" /\ searchLog[j].n > 0
    /\ Len(ret.details) = 2
    /\ \A i \in 1..2 : ret.details[i].query = queries[i]

\* C2: the tracks_added that search_and_create_playlist reports equals the
\* number of identifiers confirmed added to the playlist; identifiers of a
\* failed add-to-playlist call are not counted.
C2_AddedCountIsConfirmed ==
    (op = "browser" /\ pc = "done" /\ createOutcome = "id") =>
        ret.tracks_added = Len(remoteItems)

\* C3: when the create call returns an error object or raises, the
\* operation is over with a single top-level error and neither a search nor
\* an add-to-playlist request has been issued (all three operations).
C3_CreateFailureIsFatal ==
    createOutcome \in {"errdict", "raise"} =>
        /\ pc = "done"
        /\ "error" \in DOMAIN ret
        /\ DOMAIN ret \cap {"details", "add_results", "playlist_id"} = {}
        /\ searchLog = <<>>
        /\ addLog = <<>>
        /\ remoteItems = <<>>

\* the browser operation, handed an error object by the create call with
\* queries waiting
C3_Witness ==
    /\ op = "browser" /\ createOutcome = "errdict"
    /\ queries # <<>>
    /\ pc = "done" /\ ret = ErrorDict
    /\ searchLog = <<>> /\ addLog = <<>>

\* C4: in create_playlist_batch a search failure on one query does not
\* abort the rest: the result has one details entry per query in input
\* order, found exactly for the queries whose search returned results, and
\* the found ones are added to the playlist.
C4_BatchSearchFailureDoesNotAbort ==
    (/\ op = "batch" /\ pc = "done" /\ createOutcome = "id"
     /\ \A k \in 1..Len(addLog) : addLog[k].outcome = "ok") =>
        /\ "details" \in DOMAIN ret
        /\ Len(ret.details) = Len(queries)
        /\ Len(searchLog) = Len(queries)
        /\ \A i \in 1..Len(queries) :
              /\ ret.details[i].query = queries[i]
              /\ ret.details[i].found = (searchLog[i].kind = "ok" /\ searchLog[i].n > 0)
        /\ remoteItems = video_ids

\* the scenario of C5: queries [A, B], the search for A returned one
\* candidate, the search for B raised
C5_Scenario ==
    /\ op = "browser" /\ pc = "done" /\ createOutcome = "id"
    /\ queries = <<T_A, T_B>>
    /\ Len(searchLog) = 2
    /\ searchLog[1].kind = "ok" /\ searchLog[1].n = 1
    /\ searchLog[2].kind = "raise"

C6_NoneIffEmpty ==
    selOut # NotYet =>
        /\ (selOut = None) <=> (selCands = <<>>)
        /\ selCands # <<>> => \E i \in 1..Len(selCands) : selOut = selCands[i]

\* a call on a list in which every candidate scores below zero
C6_Witness ==
    /\ selOut # NotYet
    /\ Len(selCands) >= 2
    /\ \A i \in 1..Len(selCands) : Score(selCands[i], selQuery) < 0
    /\ \E i \in 1..Len(selCands) : selOut = selCands[i]

\* the first position that holds the highest score
FirstBest(cands, query) ==
    CHOOSE i \in 1..Len(cands) :
        /\ \A j \in 1..Len(cands) : Score(cands[j], query) <= Score(cands[i], query)
        /\ \A j \in 1..(i - 1) : Score(cands[j], query) < Score(cands[i], query)

\* C7: for a non-empty list the selector returns the candidate of highest
\* score and, among those of equal highest score, the one earliest in the
\* list (lowest sourceRank).
C7_HighestScoreLowestRank ==
    (selOut # NotYet /\ selCands # <<>>) =>
        selOut = selCands[FirstBest(selCands, selQuery)]

\* a call in which two different candidates tie for the highest score
C7_Witness ==
    /\ selOut # NotYet
    /\ \E i, j \in 1..Len(selCands) :
          /\ i < j
          /\ selCands[i] # selCands[j]
          /\ Score(selCands[i], selQuery) = Score(selCands[j], selQuery)
          /\ \A k \in 1..Len(selCands) :
                Score(selCands[k], selQuery) <= Score(selCands[i], selQuery)
          /\ \A k \in 1..(i - 1) :
                Score(selCands[k], selQuery) < Score(selCands[i], selQuery)
          /\ selOut = selCands[i]

\* the scenario of C8: the query "Test Song (Artist Remix)" against a
\* candidate of that title at sourceRank 0 and "Test Song" at sourceRank 1
C8_Scenario ==
    /\ selOut # NotYet
    /\ selQuery = Q_TestSongArtistRemix
    /\ Len(selCands) = 2
    /\ selCands[1].title = T_TestSongArtistRemix
    /\ selCands[2].title = T_TestSong

\* C8 (as claimed): in that scenario the selector picks the second
\* candidate.
C8_PicksSecond ==
    C8_Scenario => selOut = selCands[2]

\* C8 (amended): in that scenario the selector picks the first candidate:
\* only its title contains the query, so it scores 10 - 5 = 5 and the
\* second gets no title bonus.
C8_PicksFirst ==
    C8_Scenario =>
        /\ selOut = selCands[1]
        /\ selOut # selCands[2]
        /\ Score(selCands[1], selQuery) = 5
        /\ Score(selCands[2], selQuery) < 5

C8_Witness ==
    /\ C8_Scenario
    /\ selOut = selCands[1]
    /\ selOut.videoId = "v1"

(***************************************************************************)
(* Properties of the credential files (SpecStore) and of the OAuth tools   *)
(* (SpecToken).                                                            *)
(***************************************************************************)
\* C9: a load that runs while a save is in progress never reads a
\* truncated or partly written file: what it reads is the complete content
\* from before the save or the complete new content.
C9_LoadNeverTorn ==
    lastRead # NotYet => lastRead.data \in lastRead.complete

\* C10: no search or playlist request is sent under a token whose
\* expires_at has passed.
C10_NoRequestWithExpiredToken ==
    \A i \in 1..Len(tokRequests) : tokRequests[i].at < tokRequests[i].expires_at

(***************************************************************************)
(* Properties of the browser-credential tools (checked under SpecBrowser). *)
(***************************************************************************)
\* C11: whenever the browser credential was replaced (by setup_from_headers
\* or by ytm_setup_browser_auth_from_curl), the next get_ytmusic() returns
\* a session built from the credential the file holds, never the session
\* cached before the replacement: every session get_ytmusic() returns is
\* built from the credential browser.json held at that moment.
C11_SessionFromCurrentCredential ==
    lastGot # NotYet => lastGot.cred = lastGot.file

\* C12: for the header-based credential, once a remote call made through
\* the session answered an authorization failure, is_authenticated()
\* returns false until setup is run again.
C12_AuthFailureEndsAuthentication ==
    authFailed => ~BrowserIsAuthenticated

(***************************************************************************)
(* Properties of the OAuth tools (checked under SpecAuth).                 *)
(***************************************************************************)
\* C13: every caller-facing tool returns a structured result or a
\* structured error; no tool lets an exception escape to the caller,
\* ytm_authenticate without a pending handshake and ytm_get_auth_url with a
\* failing provider included.
C13_NoExceptionEscapes ==
    tokRet # NotYet => "raised" \notin DOMAIN tokRet

\* C14: AuthManager holds at most one pending handshake.  After
\* start_oauth(A) followed by start_oauth(B) the pending handshake is B's,
\* and a following complete_oauth exchanges its device code with B's
\* client id and secret only.
C14_PendingIsLastStarted ==
    /\ (pending # None /\ started # <<>>) =>
           pending = OAuthCredentials(started[Len(started)])
    /\ (lastCall # NotYet /\ lastCall.tool = "ytm_authenticate"
           /\ lastCall.before.pending # None /\ started # <<>>) =>
           tokRequests =
              <<[kind |-> "token",
                 client_id |-> OAuthCredentials(started[Len(started)]).client_id,
                 client_secret |-> OAuthCredentials(started[Len(started)]).client_secret,
                 device_code |-> lastCall.arg]>>

\* complete_oauth has completed the handshake after start_oauth(A),
\* start_oauth(B)
C14_Witness ==
    /\ started = <<"A", "B">>
    /\ lastCall # NotYet
    /\ lastCall.tool = "ytm_authenticate"
    /\ tokRet = AuthSuccess
    /\ credsFile = CredsDoc(OAuthCredentials("B"))

\* C15: complete_oauth(device_code) with a pending handshake and a
\* successful exchange: the token is exchanged with exactly that device
\* code, it is stored at oauth_path, the client id and secret are written
\* to creds_path, the pending handshake is cleared and is_authenticated()
\* is true; a further complete_oauth without a new start_oauth fails with
\* 'No pending OAuth flow'.
C15_CompleteStoresAndClears ==
    (lastCall # NotYet /\ lastCall.tool = "ytm_authenticate") =>
        /\ tokRet = AuthSuccess =>
              /\ Len(tokRequests) = 1
              /\ tokRequests[1].kind = "token"
              /\ tokRequests[1].device_code = lastCall.arg
              /\ oauth.exists
              /\ "access_token" \in DOMAIN oauth
              /\ credsFile = CredsDoc(lastCall.before.pending)
              /\ pending = None
              /\ IsAuthenticated
        /\ lastCall.before.pending = None =>
              /\ tokRet = Raised("No pending OAuth flow. Call start_oauth first.")
              /\ tokRequests = <<>>

\* a completed handshake
C15_Witness ==
    /\ lastCall # NotYet
    /\ lastCall.tool = "ytm_authenticate"
    /\ tokRet = AuthSuccess
    /\ lastCall.before.pending = OAuthCredentials("A")
    /\ lastCall.arg = "dcA"

\* C16: with no credential file, is_authenticated() is false and every
\* search or playlist tool returns a structured 'not authenticated' error
\* without any remote call and without creating any file;
\* is_authenticated() is true exactly when the credential file exists.
\* (The OAuth tools with oauth.json, the browser tools with browser.json.)
C16_NotAuthenticatedIsStructured ==
    /\ IsAuthenticated <=> oauth.exists
    /\ (lastCall # NotYet
          /\ lastCall.tool \in {"ytm_search_tracks", "ytm_create_playlist_from_ids",
                                "ytm_create_playlist_ytmusic"}
          /\ ~lastCall.before.oauth) =>
            /\ tokRet \in {ToolError("Not authenticated"),
                            ToolError("Not authenticated. Please run auth flow.")}
            /\ tokRequests = <<>>
            /\ pc = "idle"
            /\ ~oauth.exists
            /\ credsFile.exists = lastCall.before.creds
            /\ bfile.exists = lastCall.before.browser
    /\ BrowserIsAuthenticated <=> bfile.exists
    /\ (lastCall # NotYet
          /\ lastCall.tool \in {"ytm_search_browser", "ytm_create_playlist_browser"}
          /\ ~lastCall.before.browser) =>
            /\ tokRet = ToolError("Browser auth not configured")
            /\ tokRequests = <<>>
            /\ pc = "idle"
            /\ ~bfile.exists
            /\ oauth.exists = lastCall.before.oauth
            /\ credsFile.exists = lastCall.before.creds

\* the legacy playlist tool called with no oauth.json
C16_Witness ==
    /\ lastCall # NotYet
    /\ lastCall.tool = "ytm_create_playlist_ytmusic"
    /\ ~lastCall.before.oauth
    /\ ~IsAuthenticated

(***************************************************************************)
(* Properties of the header normalization (checked under SpecCurl).        *)
(***************************************************************************)
\* the -H arguments of a command that set the header `key`
HeaderArgs(cmd, key) ==
    {i \in 1..Len(cmd) :
        cmd[i].flag = "-H" /\ cmd[i].colon /\ Lower(Strip(cmd[i].name)) = key}

\* the cookie value a command carries: its first -b argument, else its
\* last Cookie header, else nothing
CarriedCookie(cmd) ==
    LET bs == {i \in 1..Len(cmd) : cmd[i].flag = "-b"}
        hs == HeaderArgs(cmd, K_cookie)
    IN  IF bs # {} THEN cmd[CHOOSE i \in bs : \A j \in bs : i <= j].value
        ELSE IF hs # {} THEN cmd[CHOOSE i \in hs : \A j \in hs : j <= i].value
        ELSE ""

CarriesAuthorization(cmd) == HeaderArgs(cmd, K_authorization) # {}

\* C17 as claimed: header normalization fails with the
\* invalid-credential-input outcome exactly when the input carries neither
\* a cookie nor an authorization value; an input with an authorization
\* value and no cookie is accepted.
C17_FailsIffNeitherCookieNorAuthorization ==
    lastCall # NotYet =>
        (tokRet = NoCookiesError <=>
            (CarriedCookie(curl_command) = "" /\ ~CarriesAuthorization(curl_command)))

\* C17 as amended: header normalization fails with the
\* invalid-credential-input outcome exactly when the input carries no
\* non-empty cookie value, whether or not it carries an authorization
\* value; then nothing is written.
C17_FailsIffNoCookie ==
    lastCall # NotYet =>
        /\ tokRet = NoCookiesError <=> CarriedCookie(curl_command) = ""
        /\ CarriedCookie(curl_command) = "" => ~bfile.exists

\* a command with an authorization header and no cookie was rejected
C17_Witness ==
    /\ lastCall # NotYet
    /\ CarriesAuthorization(curl_command)
    /\ CarriedCookie(curl_command) = ""
    /\ tokRet = NoCookiesError

CanonicalKeys ==
    {"User-Agent", "Accept", "Accept-Language", "Content-Type",
     "X-Goog-AuthUser", "x-origin", "Cookie"}

\* C18: for every cURL input that carries a cookie, the header map that
\* ytm_setup_browser_auth_from_curl writes has exactly the keys User-Agent,
\* Accept, Accept-Language, Content-Type, X-Goog-AuthUser, x-origin and
\* Cookie, plus Authorization only when the input carried it; every other
\* input header is dropped and absent auxiliary headers take their fixed
\* defaults.
C18_WrittenMapIsCanonical ==
    bfile.exists =>
        /\ CarriedCookie(curl_command) # ""
        /\ DOMAIN bfile.cred =
              CanonicalKeys \cup (IF CarriesAuthorization(curl_command)
                                  THEN {"Authorization"} ELSE {})
        /\ bfile.cred["Cookie"] = CarriedCookie(curl_command)
        /\ bfile.cred["User-Agent"] = "Mozilla/5.0"
        /\ bfile.cred["Accept-Language"] = "en-US,en;q=0.9"
        /\ bfile.cred["Content-Type"] = "application/json"
        /\ bfile.cred["X-Goog-AuthUser"] = "0"
        /\ bfile.cred["x-origin"] = "https://music.youtube.com"
        /\ bfile.cred["Accept"] =
              (IF HeaderArgs(curl_command, K_accept) # {} THEN "text/html" ELSE "*/*")
        /\ CarriesAuthorization(curl_command) => bfile.cred["Authorization"] = "a1"

\* a map was written for a command with a cookie, an unknown header and no
\* authorization header
C18_Witness ==
    /\ bfile.exists
    /\ HeaderArgs(curl_command, Lower(H_XExtra)) # {}
    /\ ~CarriesAuthorization(curl_command)
    /\ HeaderArgs(curl_command, K_accept) = {}

(***************************************************************************)
(* Order of the remote calls of one assemble invocation (checked under     *)
(* Spec).                                                                  *)
(***************************************************************************)
\* the identifiers the finished searches matched, in the order of the searches
RECURSIVE MatchedIds(_)
MatchedIds(log) ==
    IF log = <<>> THEN <<>>
    ELSE LET m == log[Len(log)].matched
             front == MatchedIds(SubSeq(log, 1, Len(log) - 1))
         IN  IF m = None THEN front ELSE Append(front, m.id)

\* C19: within one assemble invocation the add-to-playlist step is issued
\* only after the search for every input query has completed, at most
\* once, and with the identifiers of the matched queries in input query
\* order; when no query matched, no add-to-playlist call is made.
C19_AddOnceAfterAllSearches ==
    op \in {"browser", "batch"} =>
        /\ Len(addLog) <= 1
        /\ addLog # <<>> =>
              /\ Len(searchLog) = Len(queries)
              /\ \A i \in 1..Len(queries) : searchLog[i].query = queries[i]
              /\ addLog[1].ids = MatchedIds(searchLog)
              /\ MatchedIds(searchLog) # <<>>
        /\ (pc = "done" /\ "details" \in DOMAIN ret /\ MatchedIds(searchLog) = <<>>) =>
              addLog = <<>>

\* both queries of a two-query invocation matched and the add was issued
C19_Witness ==
    /\ op = "browser"
    /\ pc = "done"
    /\ queries = <<T_B, T_A>>
    /\ Len(addLog) = 1
    /\ addLog[1].ids = <<"b1", "a1">>

\* C20: every result of search_and_create_playlist has tracks_total equal
\* to the number of input queries and tracks_added at most tracks_total.
C20_TotalIsQueriesAddedAtMostTotal ==
    (op = "browser" /\ pc = "done" /\ "tracks_total" \in DOMAIN ret) =>
        /\ ret.tracks_total = Len(queries)
        /\ ret.tracks_added <= ret.tracks_total

\* a result with fewer tracks added than queries given
C20_Witness ==
    /\ op = "browser"
    /\ pc = "done"
    /\ "tracks_total" \in DOMAIN ret
    /\ Len(queries) = 2
    /\ ret.tracks_added = 1

(***************************************************************************)
(* create_playlist_from_ids: one add per identifier (checked under Spec).  *)
(***************************************************************************)
\* the number of add requests the remote accepted
RECURSIVE Accepted(_)
Accepted(log) ==
    IF log = <<>> THEN 0
    ELSE (IF Head(log).outcome = "ok" THEN 1 ELSE 0) + Accepted(Tail(log))

C24_EmptySearchIsNoSearchResults ==
    op = "browser" =>
        /\ Len(results) = Len(searchLog)
        /\ \A i \in 1..Len(searchLog) :
              (searchLog[i].kind = "ok" /\ searchLog[i].n = 0) =>
                  /\ results[i] = [query |-> queries[i], found |-> FALSE,
                                   reason |-> "No search results"]
                  /\ MatchedIds(SubSeq(searchLog, 1, i)) =
                         MatchedIds(SubSeq(searchLog, 1, i - 1))
        /\ video_ids = MatchedIds(searchLog)
        /\ (pc = "done" /\ "details" \in DOMAIN ret) =>
              Len(ret.details) = Len(queries)

\* the first query found nothing and the second was still searched and
\* matched
C24_Witness ==
    /\ op = "browser"
    /\ pc = "done"
    /\ Len(queries) = 2
    /\ Len(searchLog) = 2
    /\ searchLog[1].kind = "ok" /\ searchLog[1].n = 0
    /\ searchLog[2].n > 0
    /\ "details" \in DOMAIN ret
    /\ ret.details[1].reason = "No search results"
    /\ ret.details[2].found
    /\ video_ids = <<ret.details[2].videoId>>

\* C30: in search_and_create_playlist every query whose search returns a
\* non-empty candidate list is recorded as found: True with the selected
\* candidate's videoId appended to the add list, and the reason
\* "No suitable match found" is never produced.
C30_NonEmptySearchIsFound ==
    op = "browser" =>
        \A i \in 1..Len(results) :
            /\ (searchLog[i].kind = "ok" /\ searchLog[i].n > 0) =>
                  /\ results[i].found
                  /\ searchLog[i].matched # None
                  /\ MatchedIds(SubSeq(searchLog, 1, i)) =
                         Append(MatchedIds(SubSeq(searchLog, 1, i - 1)),
                                searchLog[i].matched.id)
            /\ "reason" \in DOMAIN results[i] =>
                  results[i].reason # "No suitable match found"

(***************************************************************************)
(* The selector's remix penalty (checked under SpecSelect).                *)
(***************************************************************************)
\* r is the candidate `plain` with " (Bootleg)" added to its title
IsBootlegOf(r, plain) ==
    /\ r.title = plain.title \o T_BootlegSuffix
    /\ r.artists = plain.artists
    /\ r.isExplicit = plain.isExplicit
    /\ \A w \in ApiRemixWords : ~Contains(w, Lower(plain.title))

\* C26: the selector's score subtracts 5 from every candidate whose
\* case-folded title contains "remix", "rmx", "rework", "edit" or
\* "bootleg": a candidate titled with "bootleg" and none of the other
\* words scores 5 lower than the same candidate without it, and the
\* selector's word list is the one search_tracks uses for isRemix.
C26_BootlegScoresFiveLower ==
    (/\ selOut # NotYet
     /\ \E i, j \in 1..Len(selCands) : IsBootlegOf(selCands[i], selCands[j])) =>
        /\ SelectorRemixWords = ApiRemixWords
        /\ \A i, j \in 1..Len(selCands) :
              IsBootlegOf(selCands[i], selCands[j]) =>
                  Score(selCands[i], selQuery) = Score(selCands[j], selQuery) - 5

(***************************************************************************)
(* The search functions (checked under SpecApi).                           *)
(***************************************************************************)
\* C21: search_tracks returns an empty list only when the remote search
\* succeeded with zero items, and raises whenever the search request
\* answers a status other than success, never returning a list then; a
\* failed details request does not change that.
C21_EmptyListOnlyWhenNothingFound ==
    (apiCall # NotYet /\ apiCall.fn = "search_tracks") =>
        LET answer == apiCall.answers[1]
        IN  /\ answer.status # 200 =>
                  /\ "raised" \in DOMAIN apiRet
                  /\ "type" \notin DOMAIN apiRet
            /\ answer.status = 200 =>
                  /\ "raised" \notin DOMAIN apiRet
                  /\ apiRet.type = "list"
                  /\ Len(apiRet.value) = Len(answer.items)
            /\ (apiRet = PyList(<<>>)) <=>
                  (answer.status = 200 /\ answer.items = <<>>)

\* a search that the remote service refused with 401 raised
C21_Witness ==
    /\ apiCall # NotYet
    /\ apiCall.fn = "search_tracks"
    /\ apiCall.answers[1].status = 401
    /\ apiRet = Raised("Search failed")

\* the i-th query of the call is the last occurrence of its string
LastOccurrence(i) ==
    \A j \in (i + 1)..Len(apiCall.queries) : apiCall.queries[j] # apiCall.queries[i]

\* the i-th search of the call failed
SearchFailed(i) ==
    LET a == apiCall.answers[i]
    IN  IF apiCall.fn = "search_tracks_batch" THEN a.status # 200
        ELSE \/ a.kind = "raise"
             \/ \E k \in 1..Len(a.hits) : a.hits[k].album = None

\* the video ids the i-th search of the call was answered
AnsweredIds(i) ==
    LET a == apiCall.answers[i]
        found == IF apiCall.fn = "search_tracks_batch" THEN a.items ELSE a.hits
    IN  [k \in 1..Len(found) |-> found[k].videoId]

C25_OneOutcomePerInputQuery ==
    (apiCall # NotYet /\ apiCall.fn \in {"search_tracks_batch", "search_tracks_detailed"}) =>
        Cardinality(DOMAIN apiRet) = Len(apiCall.queries)

(***************************************************************************)
(* complete_oauth on error (checked under SpecAuth).                       *)
(***************************************************************************)
\* C27: complete_oauth leaves the state unchanged on error: when no
\* handshake is pending, or when the device-code exchange raises, no token
\* file and no credentials file is created or modified and the pending
\* handshake is exactly what it was before the call.
C27_FailedCompleteChangesNothing ==
    [][(/\ "tool" \in DOMAIN lastCall'
        /\ lastCall'.tool = "ytm_authenticate"
        /\ tokRet' \in {Raised("No pending OAuth flow. Call start_oauth first."),
                        Raised("refused")})
          => UNCHANGED <<oauth, credsFile, pending>>]_vars

\* the provider refused the device code of a pending handshake: the
\* handshake is still pending and no file exists
C27_Witness ==
    /\ lastCall # NotYet
    /\ lastCall.tool = "ytm_authenticate"
    /\ tokRet = Raised("refused")
    /\ lastCall.before.pending # None
    /\ pending = lastCall.before.pending
    /\ ~oauth.exists
    /\ ~credsFile.exists

(***************************************************************************)
(* Legacy migration in get_ytmusic (checked under SpecAuth).               *)
(***************************************************************************)
\* C29: when oauth_creds.json is absent and oauth.json embeds
\* 'oauth_credentials', get_ytmusic moves exactly that object into
\* oauth_creds.json and rewrites oauth.json without that key and with
\* every other key and value unchanged; a get_ytmusic that finds
\* oauth_creds.json (as the second call does) writes no file, so oauth.json
\* is never rewritten while oauth_creds.json exists.
C29_MigrationMovesCredentialsOnce ==
    [][(/\ "tool" \in DOMAIN lastCall'
        /\ lastCall'.tool = "ytm_create_playlist_ytmusic")
          => IF oauth.exists /\ ~credsFile.exists /\ "oauth_credentials" \in DOMAIN oauth
             THEN /\ credsFile'.exists
                  /\ DOMAIN credsFile' = {"exists"} \cup DOMAIN oauth.oauth_credentials
                  /\ \A k \in DOMAIN oauth.oauth_credentials :
                        credsFile'[k] = oauth.oauth_credentials[k]
                  /\ DOMAIN oauth' = DOMAIN oauth \ {"oauth_credentials"}
                  /\ \A k \in DOMAIN oauth' : oauth'[k] = oauth[k]
             ELSE UNCHANGED <<oauth, credsFile>>]_vars

\* a second get_ytmusic ran after the migration: it found oauth_creds.json
\* and the files are as the migration left them
C29_Witness ==
    /\ lastCall # NotYet
    /\ lastCall.tool = "ytm_create_playlist_ytmusic"
    /\ lastCall.before.creds
    /\ credsFile = [exists |-> TRUE, client_id |-> "L", client_secret |-> "secretL"]
    /\ oauth = [exists |-> TRUE, access_token |-> "tok0", expires_at |-> TokenTTL]

(***************************************************************************)
(* The two files of one completion (checked under SpecComplete).           *)
(***************************************************************************)
\* C28: in every state reachable while complete_oauth runs interleaved
\* with other calls on the same files, if oauth.json exists then the
\* oauth_creds.json written by the same completion exists too, and no
\* is_authenticated() or get_ytmusic() finds 'authenticated' with
\* oauth_creds.json missing.
C28_TokenNeverWithoutCredentials ==
    /\ oauth.exists => credsFile.exists
    /\ (observed # NotYet /\ observed.authenticated) => observed.creds

=============================================================================
